---- MODULE Spec2Model ----
(***************************************************************************)
(* tuya2mqtt: the device aggregate (device.py), the poll scheduler, the    *)
(* MQTT command router / state publisher (mqtt_handler.py) and the HTTP    *)
(* set-entity and read endpoints (web_server.py).                          *)
(*                                                                         *)
(* Three threads run the code: "poll" (DeviceManager._poll_loop), "mqtt"   *)
(* (the paho network loop that runs MQTTHandler._on_message) and "http"    *)
(* (a Flask request handler).  No lock exists anywhere in the source, so   *)
(* the threads interleave between Python statements; one action below is   *)
(* one statement (or one run of statements that touch only thread-local    *)
(* data), executed atomically under the interpreter lock.                  *)
(***************************************************************************)
EXTENDS Integers, Sequences, FiniteSets, TLC

VARIABLES
    last_state,    \* TuyaDevice.last_state, per device: DPS number -> value
    last_update,   \* TuyaDevice.last_update, per device: "None" or "now"
    available,     \* TuyaDevice.available, per device
    state,         \* Entity.state, per entity <<device, index>>: key -> value
    polling,       \* DeviceManager.polling
    pc,            \* per thread: the statement it executes next
    dev,           \* per thread: the device its current call works on
    eidx,          \* per thread: index of the entity loop it is in
    kidx,          \* per thread: index of the dps_map loop of update_state
    status,        \* per thread: local `status` of get_status
    dps_values,    \* per thread: argument `dps_values` of update_state
    ret,           \* per thread: what its last get_status call returned
    dps_changes,   \* per thread: local `dps_changes` of a command handler
    msg,           \* MQTT thread: the message in hand, until it is translated
    didx,          \* poll thread: position in `for device in self.devices.values()`
    ent,           \* per thread: index of the entity a command addresses
    polled,        \* history: devices whose refresh was attempted in this tick
    raised,        \* history: did publish_callback raise in this tick
    mainpc,        \* main thread: position in Tuya2MQTT.stop
    calc,          \* the last evaluation of a translation function: its input and result
    inflight,      \* history: the poll thread's refresh that was running at the stop request has not returned
    log,           \* history, per thread: calls made for the current command
    wcall,         \* history, per thread: the link write its handler just made
    storefail,     \* history, per thread: a store call failed inside its current call
    availability,  \* per thread: local `availability` of publish_device_state
    disp           \* history, per thread: what became of its last message/request

vars == <<last_state, last_update, available, state, polling, pc, dev, eidx,
          kidx, status, dps_values, ret, dps_changes, didx, ent, polled, log, wcall, disp,
          msg, raised, mainpc, inflight, calc, storefail, availability>>

-----------------------------------------------------------------------------
(* Raw DPS values: bool | int | string, tagged so that values of different *)
(* Python types can be compared.                                           *)
B(b) == [t |-> "bool", v |-> b]
I(n) == [t |-> "int", v |-> n]
S(s) == [t |-> "str", v |-> s]
(* A number with one decimal, held in tenths: D(215) is 21.5. *)
D(n) == [t |-> "dec", v |-> n]

EmptyDict == <<>>

(* dict[key] = value *)
DictSet(d, k, x) == [j \in (DOMAIN d) \cup {k} |-> IF j = k THEN x ELSE d[j]]

-----------------------------------------------------------------------------
(* Configuration: two devices; d1 owns a light with two mapped DPS, d2 a   *)
(* switch and a scaled sensor.                                             *)
DeviceOrder == <<"d1", "d2">>

Devices == {DeviceOrder[i] : i \in 1..Len(DeviceOrder)}

(* The default temp_step, 0.5, in tenths (device.py line 45). *)
DefaultTempStep == 5

MkEntity(platform, name, dps, scale) ==
    [platform |-> platform, name |-> name, dps_map |-> dps, scale |-> scale,
     brightness_range |-> <<10, 1000>>, color_temp_range |-> <<0, 1000>>,
     speed_range |-> <<1, 3>>, temp_step |-> DefaultTempStep, states |-> <<>>,
     options |-> <<>>]

Entities(d) ==
    IF d = "d1"
    THEN << MkEntity("light", "lamp", << <<"switch", 1>>, <<"brightness", 2>> >>, 1) >>
    ELSE << MkEntity("switch", "plug", << <<"switch", 1>> >>, 1),
            MkEntity("sensor", "temp", << <<"value", 3>> >>, 2) >>

EntityRefs == {<<d, i>> : d \in Devices, i \in 1..2} \cap
              UNION {{<<d, i>> : i \in 1..Len(Entities(d))} : d \in Devices}

Ent(e) == Entities(e[1])[e[2]]

(* What DeviceLink.status() can answer for a device: a DPS vector (d1     *)
(* reports DPS 2 only while it is on), a result without 'dps', or an       *)
(* exception.  d2 is a device whose link always answers.                   *)
RawVectors(d) ==
    IF d = "d1"
    THEN { (1 :> B(TRUE) @@ 2 :> I(500)), (1 :> B(FALSE)) }
    ELSE { (1 :> B(TRUE) @@ 3 :> I(21)) }

StatusOutcomes(d) ==
    {[kind |-> "dps", dps |-> v] : v \in RawVectors(d)} \cup
    (IF d = "d1"
     THEN {[kind |-> "nodps", dps |-> EmptyDict], [kind |-> "raise", dps |-> EmptyDict]}
     ELSE {})

NoStatus == [kind |-> "none", dps |-> EmptyDict]
None == [some |-> FALSE, dps |-> EmptyDict]
NoCall == [op |-> "none", arg |-> EmptyDict, res |-> "none", ok |-> FALSE]
NoCalc == [fn |-> "none"]
NoMsg == [topic |-> <<>>, payload |-> [kind |-> "none", data |-> EmptyDict, text |-> ""]]
Some(v) == [some |-> TRUE, dps |-> v]

Threads == {"poll", "mqtt", "http"}

(* Bound of the model: how many of the three threads are inside a handler  *)
(* (a poll tick, a message callback, a request) at the same time.          *)
MaxActive == 2

-----------------------------------------------------------------------------
(* Entity.update_state, line 92-93: scaling of a numeric value.  A Python  *)
(* bool is an int, so it is scaled as 0/1.                                 *)
Scale(e, value) ==
    IF Ent(e).scale # 1 /\ value.t \in {"int", "bool"}
    THEN I((IF value.t = "bool" THEN (IF value.v THEN 1 ELSE 0) ELSE value.v) * Ent(e).scale)
    ELSE value

(* One iteration of `for key, dps_num in self.dps_map.items()`. *)
UpdateKey(e, st, k, dv) ==
    LET key == Ent(e).dps_map[k][1]
        dps_num == Ent(e).dps_map[k][2]
    IN  IF dps_num \in DOMAIN dv THEN DictSet(st, key, Scale(e, dv[dps_num])) ELSE st

(* Entity.update_state run from start to end without interruption. *)
RECURSIVE UpdateFrom(_, _, _, _)
UpdateFrom(e, st, k, dv) ==
    IF k > Len(Ent(e).dps_map) THEN st
    ELSE UpdateFrom(e, UpdateKey(e, st, k, dv), k + 1, dv)

Resolve(e, dv) == UpdateFrom(e, EmptyDict, 1, dv)

(* An update that stores the scaled values in the vector it was given. *)
UpdateStateInPlace(e, st, dv) ==
    [state |-> Resolve(e, dv),
     dps_values |-> [n \in DOMAIN dv |->
                        IF \E k \in 1..Len(Ent(e).dps_map) : Ent(e).dps_map[k][2] = n
                        THEN Scale(e, dv[n]) ELSE dv[n]]]

(* One call entity.update_state(dps_values) on an entity whose state is    *)
(* st: line 85 drops st, lines 87-95 fill the new state; dps_values (the   *)
(* caller's dict) is only read.                                            *)
update_state(e, st, dv) == [state |-> Resolve(e, dv), dps_values |-> dv]

-----------------------------------------------------------------------------
Init ==
    /\ last_state = [d \in Devices |-> EmptyDict]
    /\ last_update = [d \in Devices |-> "None"]
    /\ available = [d \in Devices |-> TRUE]
    /\ state = [e \in EntityRefs |-> EmptyDict]
    /\ polling = TRUE
    /\ pc = [t \in Threads |->
               IF t = "poll" THEN "poll_while" ELSE IF t = "mqtt" THEN "m_idle" ELSE "h_idle"]
    /\ dev = [t \in Threads |-> "none"]
    /\ eidx = [t \in Threads |-> 0]
    /\ kidx = [t \in Threads |-> 0]
    /\ status = [t \in Threads |-> NoStatus]
    /\ dps_values = [t \in Threads |-> EmptyDict]
    /\ ret = [t \in Threads |-> None]
    /\ dps_changes = [t \in Threads |-> EmptyDict]
    /\ didx = 0
    /\ polled = {}
    /\ log = [t \in Threads |-> <<>>]
    /\ ent = [t \in Threads |-> 0]
    /\ wcall = [t \in Threads |-> NoCall]
    /\ msg = NoMsg
    /\ raised = FALSE
    /\ mainpc = "run"
    /\ inflight = FALSE
    /\ calc = NoCalc
    /\ availability = [t \in Threads |-> "none"]
    /\ storefail = [t \in Threads |-> FALSE]
    /\ disp = [t \in Threads |-> "none"]

-----------------------------------------------------------------------------
(* The MQTT client's network loop runs from connect() until              *)
(* MQTTHandler.disconnect has stopped it (mqtt_handler.py 46, 55).         *)
Connected == mainpc \in {"run", "join", "disconnect"}

(* A thread is idle between two poll ticks, two messages, two requests. *)
Idle(t) == pc[t] \in {"poll_while", "poll_sleep", "poll_exit", "m_idle", "h_idle"}

MayStart == Cardinality({t \in Threads : ~Idle(t)}) < MaxActive

(* A caller that does not publish after the refresh. *)
AfterGetStatusNoPublish(t) ==
    IF t = "http" THEN "h_resp" ELSE IF t = "poll" THEN "poll_next" ELSE "m_done"

(* Where a thread goes on when the call it is in returns. *)
AfterGetStatus(t) == IF t = "http" THEN "h_resp" ELSE "pub_avail"

AfterPublish(t) == IF t = "poll" THEN "poll_next" ELSE "m_done"

(* A poll loop without its try/except: the exception ends the thread. *)
AfterRaiseEscapes(t) == IF t = "poll" THEN "poll_exit" ELSE "m_done"

(* An exception out of publish_device_state is caught by the caller:       *)
(* device.py 318-319 (the loop goes on), mqtt_handler.py 251-252.          *)
AfterRaise(t) == IF t = "poll" THEN "poll_next" ELSE "m_done"

(* A handler that refreshes right after the write, without the delay. *)
AfterWriteNoDelay(t) == "gs_status"

(* After the write: the settle delay (mqtt_handler.py 246-247,             *)
(* web_server.py 70-71).                                                   *)
AfterWrite(t) == IF t = "mqtt" THEN "m_sleep" ELSE "h_sleep"

(* An endpoint that refreshes whatever the write returned. *)
AfterControlAlways(success) == AfterWrite("http")

(* set_entity lines 68-75: `if success:` sleep, refresh and answer 200,    *)
(* otherwise answer 400.                                                   *)
AfterControl(success) == IF success THEN AfterWrite("http") ELSE "h_fail"


CurEntity(t) == <<dev[t], eidx[t]>>

-----------------------------------------------------------------------------
(* TuyaDevice.get_status, one action per statement.                        *)

(* line 169: status = self.device.status() *)
gs_status(t) ==
    /\ pc[t] = "gs_status"
    /\ \E o \in StatusOutcomes(dev[t]) :
          /\ status' = [status EXCEPT ![t] = o]
          /\ pc' = [pc EXCEPT ![t] = IF o.kind = "dps" THEN "gs_last_state"
                                     ELSE IF o.kind = "nodps" THEN "gs_nodps"
                                     ELSE "gs_except"]
    /\ log' = [log EXCEPT ![t] = Append(@, "get_status")]
    /\ UNCHANGED <<availability, storefail, last_state, last_update, available, state, polling, mainpc, calc, inflight, msg, raised, wcall, ent, disp, dev, eidx,
                   kidx, dps_values, ret, dps_changes, didx, polled>>

(* line 171: self.last_state = status['dps']; the local `status` is not   *)
(* used after this line.                                                   *)
gs_last_state(t) ==
    /\ pc[t] = "gs_last_state"
    /\ last_state' = [last_state EXCEPT ![dev[t]] = status[t].dps]
    /\ status' = [status EXCEPT ![t] = NoStatus]
    /\ pc' = [pc EXCEPT ![t] = "gs_last_update"]
    /\ UNCHANGED <<availability, storefail, last_update, available, state, polling, mainpc, calc, inflight, msg, raised, wcall, ent, disp, dev, eidx, kidx,
                   dps_values, ret, dps_changes, didx, polled, log>>

(* line 172: self.last_update = datetime.now() *)
gs_last_update(t) ==
    /\ pc[t] = "gs_last_update"
    /\ last_update' = [last_update EXCEPT ![dev[t]] = "now"]
    /\ pc' = [pc EXCEPT ![t] = "gs_available"]
    /\ UNCHANGED <<availability, storefail, last_state, available, state, polling, mainpc, calc, inflight, msg, raised, wcall, ent, disp, dev, eidx, kidx, status,
                   dps_values, ret, dps_changes, didx, polled, log>>

(* line 173: self.available = True *)
gs_available(t) ==
    /\ pc[t] = "gs_available"
    /\ available' = [available EXCEPT ![dev[t]] = TRUE]
    /\ eidx' = [eidx EXCEPT ![t] = 1]
    /\ pc' = [pc EXCEPT ![t] = "gs_for"]
    /\ UNCHANGED <<availability, storefail, last_state, last_update, state, polling, mainpc, calc, inflight, msg, raised, wcall, ent, disp, dev, kidx, status,
                   dps_values, ret, dps_changes, didx, polled, log>>

(* lines 176-177: `for entity in self.entities` and the call                *)
(* entity.update_state(self.last_state), whose argument is read here.      *)
gs_for(t) ==
    /\ pc[t] = "gs_for"
    /\ IF eidx[t] <= Len(Entities(dev[t]))
       THEN /\ dps_values' = [dps_values EXCEPT ![t] = last_state[dev[t]]]
            /\ pc' = [pc EXCEPT ![t] = "us_reset"]
       ELSE /\ dps_values' = dps_values
            /\ pc' = [pc EXCEPT ![t] = "gs_log"]
    /\ UNCHANGED <<availability, storefail, last_state, last_update, available, state, polling, mainpc, calc, inflight, msg, raised, wcall, ent, disp, dev, eidx,
                   kidx, status, ret, dps_changes, didx, polled, log>>

(* Entity.update_state line 85: self.state = {} *)
us_reset(t) ==
    /\ pc[t] = "us_reset"
    /\ state' = [state EXCEPT ![CurEntity(t)] = EmptyDict]
    /\ kidx' = [kidx EXCEPT ![t] = 1]
    /\ pc' = [pc EXCEPT ![t] = IF Len(Ent(CurEntity(t)).dps_map) = 0
                               THEN "gs_save" ELSE "us_for"]
    /\ UNCHANGED <<availability, storefail, last_state, last_update, available, polling, mainpc, calc, inflight, msg, raised, wcall, ent, disp, dev, eidx, status,
                   dps_values, ret, dps_changes, didx, polled, log>>

(* Entity.update_state lines 87-95: one iteration of the dps_map loop *)
us_for(t) ==
    /\ pc[t] = "us_for"
    /\ state' = [state EXCEPT ![CurEntity(t)] =
                    UpdateKey(CurEntity(t), @, kidx[t], dps_values[t])]
    /\ kidx' = [kidx EXCEPT ![t] = @ + 1]
    /\ pc' = [pc EXCEPT ![t] = IF kidx[t] >= Len(Ent(CurEntity(t)).dps_map)
                               THEN "gs_save" ELSE "us_for"]
    /\ UNCHANGED <<availability, storefail, last_state, last_update, available, polling, mainpc, calc, inflight, msg, raised, wcall, ent, disp, dev, eidx, status,
                   dps_values, ret, dps_changes, didx, polled, log>>

(* What happens inside a call of the store: the statement runs, or sqlite  *)
(* / json.dumps raises.                                                    *)
StoreOutcomes == {"ok", "fail"}

(* A store whose methods let their exception out. *)
StoreCallPropagates(so) == IF so = "fail" THEN "raised" ELSE "returned"

(* Database.save_entity_state (database.py 101-121) and Database.log_event *)
(* (168-178): the whole body is inside try/except Exception, which logs;   *)
(* the call returns to its caller either way.                              *)
StoreCall(so) == "returned"

(* lines 180-187: database.save_entity_state(...), with what happens       *)
(* inside the store.                                                       *)
gs_save(t, so) ==
    /\ pc[t] = "gs_save"
    /\ IF StoreCall(so) = "returned"
       THEN /\ eidx' = [eidx EXCEPT ![t] = @ + 1]
            /\ pc' = [pc EXCEPT ![t] = "gs_for"]
       ELSE /\ eidx' = eidx
            /\ pc' = [pc EXCEPT ![t] = "gs_except"]
    /\ storefail' = [storefail EXCEPT ![t] = @ \/ so = "fail"]
    /\ UNCHANGED <<availability, last_state, last_update, available, state, polling, mainpc, calc, inflight, msg, raised, wcall, ent, disp, dev, kidx,
                   status, dps_values, ret, dps_changes, didx, polled, log>>

(* lines 190-197: database.log_event(...) and return self.last_state *)
gs_return(t, so) ==
    /\ pc[t] = "gs_log"
    /\ IF StoreCall(so) = "returned"
       THEN /\ ret' = [ret EXCEPT ![t] = Some(last_state[dev[t]])]
            /\ pc' = [pc EXCEPT ![t] = AfterGetStatus(t)]
            /\ inflight' = (inflight /\ t # "poll")
       ELSE /\ ret' = ret
            /\ pc' = [pc EXCEPT ![t] = "gs_except"]
            /\ inflight' = inflight
    /\ eidx' = [eidx EXCEPT ![t] = 0]
    /\ kidx' = [kidx EXCEPT ![t] = 0]
    /\ dps_values' = [dps_values EXCEPT ![t] = EmptyDict]
    /\ storefail' = [storefail EXCEPT ![t] = @ \/ so = "fail"]
    /\ UNCHANGED <<availability, last_state, last_update, available, state, polling, mainpc, calc, msg, raised, wcall, ent, disp, dev,
                   status, dps_changes, didx, polled, log>>

(* A failure exit that forgets the device's availability. *)
FailAvailableKept(d) == available

(* What the two failure exits do to the device: self.available = False *)
FailAvailable(d) == [available EXCEPT ![d] = FALSE]

(* A refresh that asks the link again after a failure. *)
AfterFailureRetry(t) == "gs_status"

(* lines 199 and 203: `return None`, straight back to the caller *)
AfterFailure(t) == AfterGetStatus(t)

(* lines 198-199: status without 'dps': self.available = False; return None *)
gs_nodps(t) ==
    /\ pc[t] = "gs_nodps"
    /\ available' = FailAvailable(dev[t])
    /\ ret' = [ret EXCEPT ![t] = None]
    /\ status' = [status EXCEPT ![t] = NoStatus]
    /\ pc' = [pc EXCEPT ![t] = AfterFailure(t)]
    /\ inflight' = (inflight /\ t # "poll")
    /\ UNCHANGED <<availability, storefail, last_state, last_update, state, polling, mainpc, calc, msg, raised, wcall, ent, disp, dev, eidx, kidx,
                   dps_values, dps_changes, didx, polled, log>>

(* lines 200-203: except Exception: self.available = False; return None *)
gs_except(t) ==
    /\ pc[t] = "gs_except"
    /\ available' = FailAvailable(dev[t])
    /\ ret' = [ret EXCEPT ![t] = None]
    /\ status' = [status EXCEPT ![t] = NoStatus]
    /\ pc' = [pc EXCEPT ![t] = AfterFailure(t)]
    /\ inflight' = (inflight /\ t # "poll")
    /\ UNCHANGED <<availability, storefail, last_state, last_update, state, polling, mainpc, calc, msg, raised, wcall, ent, disp, dev, eidx, kidx,
                   dps_values, dps_changes, didx, polled, log>>

-----------------------------------------------------------------------------
(* DeviceManager._poll_loop                                                *)

(* line 313: while self.polling *)
poll_while ==
    /\ pc["poll"] = "poll_while"
    /\ polling => MayStart
    /\ IF polling
       THEN /\ didx' = 1
            /\ pc' = [pc EXCEPT !["poll"] = "poll_for"]
       ELSE /\ didx' = didx
            /\ pc' = [pc EXCEPT !["poll"] = "poll_exit"]
    /\ UNCHANGED <<availability, storefail, polled, raised, last_state, last_update, available, state, polling, mainpc, calc, inflight, msg, wcall, ent, disp, dev, eidx,
                   kidx, status, dps_values, ret, dps_changes, log>>

(* lines 314-316: for device in self.devices.values(): try: device.get_status() *)
poll_for ==
    /\ pc["poll"] = "poll_for"
    /\ IF didx <= Len(DeviceOrder)
       THEN /\ dev' = [dev EXCEPT !["poll"] = DeviceOrder[didx]]
            /\ polled' = polled \cup {DeviceOrder[didx]}
            /\ pc' = [pc EXCEPT !["poll"] = "gs_status"]
       ELSE /\ dev' = [dev EXCEPT !["poll"] = "none"]
            /\ polled' = polled
            /\ pc' = [pc EXCEPT !["poll"] = "poll_sleep"]
    /\ log' = [log EXCEPT !["poll"] = <<>>]
    /\ UNCHANGED <<availability, storefail, last_state, last_update, available, state, polling, mainpc, calc, inflight, msg, raised, wcall, ent, disp, eidx, kidx,
                   status, dps_values, ret, dps_changes, didx>>

(* The end of one iteration of the for loop, reached when publish_callback *)
(* returned and, through `except Exception` (lines 318-319), when it raised. *)
PollNextPc == "poll_for"

poll_next ==
    /\ pc["poll"] = "poll_next"
    /\ didx' = didx + 1
    /\ pc' = [pc EXCEPT !["poll"] = PollNextPc]
    /\ UNCHANGED <<availability, storefail, last_state, last_update, available, state, polling, mainpc, calc, inflight, msg, raised, wcall, ent, disp, dev, eidx,
                   kidx, status, dps_values, ret, dps_changes, polled, log>>

(* line 320: time.sleep(interval) *)
poll_sleep ==
    /\ pc["poll"] = "poll_sleep"
    /\ polled' = {}
    /\ raised' = FALSE
    /\ pc' = [pc EXCEPT !["poll"] = "poll_while"]
    /\ UNCHANGED <<availability, storefail, last_state, last_update, available, state, polling, mainpc, calc, inflight, msg, wcall, ent, disp,
                   dev, eidx, kidx, status, dps_values, ret, dps_changes, didx, log>>

-----------------------------------------------------------------------------
(* MQTTHandler.publish_device_state, run by the poll thread (as            *)
(* publish_callback) and by the MQTT thread (command path).                *)
Publishers == {"poll", "mqtt"}

(* line 259: availability = "online" if device.available else "offline" *)
Availability(d) == IF available[d] THEN "online" ELSE "offline"

(* lines 259-264: publish availability ("online" if device.available) *)
pub_avail(t) ==
    /\ pc[t] = "pub_avail"
    /\ log' = [log EXCEPT ![t] = Append(@, "publish")]
    /\ ret' = [ret EXCEPT ![t] = None]
    /\ pc' = [pc EXCEPT ![t] = "pub_check"]
    /\ storefail' = [storefail EXCEPT ![t] = FALSE]
    /\ availability' = [availability EXCEPT ![t] = Availability(dev[t])]
    /\ UNCHANGED <<last_state, last_update, available, state, polling, mainpc, calc, inflight, msg, raised, wcall, ent, disp, dev, eidx,
                   kidx, status, dps_values, dps_changes, didx, polled>>

(* lines 266-267: if not device.available: return *)
pub_check(t) ==
    /\ pc[t] = "pub_check"
    /\ IF available[dev[t]]
       THEN /\ eidx' = [eidx EXCEPT ![t] = 1]
            /\ availability' = availability
            /\ pc' = [pc EXCEPT ![t] = "pub_for"]
       ELSE /\ eidx' = eidx
            /\ availability' = [availability EXCEPT ![t] = "none"]
            /\ pc' = [pc EXCEPT ![t] = AfterPublish(t)]
    /\ UNCHANGED <<storefail, last_state, last_update, available, state, polling, mainpc, calc, inflight, msg, raised, wcall, ent, disp, dev, kidx,
                   status, dps_values, ret, dps_changes, didx, polled, log>>

(* lines 270-309: one iteration of `for entity in device.entities`: read   *)
(* entity.state and publish it *)
pub_for(t) ==
    /\ pc[t] = "pub_for"
    /\ eidx' = [eidx EXCEPT ![t] = @ + 1]
    /\ pc' = [pc EXCEPT ![t] = IF eidx[t] >= Len(Entities(dev[t]))
                               THEN "pub_raw" ELSE "pub_for"]
    /\ UNCHANGED <<availability, storefail, last_state, last_update, available, state, polling, mainpc, calc, inflight, msg, raised, wcall, ent, disp, dev, kidx,
                   status, dps_values, ret, dps_changes, didx, polled, log>>

(* lines 312-317: publish json.dumps(device.last_state); return *)
pub_raw(t) ==
    /\ pc[t] = "pub_raw"
    /\ eidx' = [eidx EXCEPT ![t] = 0]
    /\ pc' = [pc EXCEPT ![t] = AfterPublish(t)]
    /\ availability' = [availability EXCEPT ![t] = "none"]
    /\ UNCHANGED <<storefail, last_state, last_update, available, state, polling, mainpc, calc, inflight, msg, raised, wcall, ent, disp, dev, kidx,
                   status, dps_values, ret, dps_changes, didx, polled, log>>

(* self.client.publish / json.dumps raising inside publish_device_state:   *)
(* the exception leaves the call and is caught by the caller               *)
(* (device.py 318-319, mqtt_handler.py 251-252).                           *)
pub_raise(t) ==
    /\ pc[t] \in {"pub_avail", "pub_for", "pub_raw"}
    /\ eidx' = [eidx EXCEPT ![t] = 0]
    /\ ret' = [ret EXCEPT ![t] = None]
    /\ log' = [log EXCEPT ![t] = IF pc[t] = "pub_avail" THEN Append(@, "publish") ELSE @]
    /\ raised' = (raised \/ t = "poll")
    /\ pc' = [pc EXCEPT ![t] = AfterRaise(t)]
    /\ storefail' = [storefail EXCEPT ![t] = FALSE]
    /\ availability' = [availability EXCEPT ![t] = "none"]
    /\ UNCHANGED <<last_state, last_update, available, state, polling, mainpc, calc, inflight, msg, wcall, ent, disp,
                   dev, kidx, status, dps_values, dps_changes, didx, polled>>

-----------------------------------------------------------------------------
(* Command translation                                                     *)

NoneDps == -1

(* Entity.get_dps: self.dps_map.get(key) *)
RECURSIVE GetDpsFrom(_, _, _)
GetDpsFrom(m, key, k) ==
    IF k > Len(m) THEN NoneDps
    ELSE IF m[k][1] = key THEN m[k][2] ELSE GetDpsFrom(m, key, k + 1)

get_dps(e, key) == GetDpsFrom(Ent(e).dps_map, key, 1)

(* `if some_dps:` is false for None and for 0 *)
Truthy(dps) == dps # NoneDps /\ dps # 0

(* a or b, on DPS numbers *)
Or(a, b) == IF Truthy(a) THEN a ELSE b

IsNumber(x) == x.t \in {"int", "bool"}

Num(x) == IF x.t = "bool" THEN (IF x.v THEN 1 ELSE 0) ELSE x.v

(* int(): truncation toward zero of the quotient n / d, d > 0 *)
Trunc(n, d) == IF n >= 0 THEN n \div d ELSE -((-n) \div d)

(* int(min_val + (value / full) * (max_val - min_val)) *)
Rescale(range, value, full) ==
    Trunc(range[1] * full + value * (range[2] - range[1]), full)

MqttBrightnessFull == 255
MqttColorTempFull == 500
WebBrightnessFull == 100

(* mqtt_handler.py line 119: data['state'] in ['ON', True, 1, 'true'] *)
StateIsOn(x) ==
    \/ x.t = "str" /\ x.v \in {"ON", "true"}
    \/ x.t = "bool" /\ x.v
    \/ x.t = "int" /\ x.v = 1

Translated(changes) == [raise |-> FALSE, changes |-> changes]
Raised == [raise |-> TRUE, changes |-> EmptyDict]

(* A temperature from a payload: an integer or a number with one decimal. *)
IsReal(x) == x.t \in {"int", "bool", "dec"}

(* The value of a temperature in tenths. *)
Tenths(x) == IF x.t = "dec" THEN x.v ELSE 10 * Num(x)

(* `if temp:` is false for 0, 0.0, False and the empty string *)
TruthyValue(x) ==
    IF x.t = "bool" THEN x.v
    ELSE IF x.t = "str" THEN x.v # ""
    ELSE x.v # 0

(* int(temp / entity.temp_step), both in tenths.  The steps of this model  *)
(* (0.5 and 1.0) are powers of two, for which the float quotient is exact  *)
(* up to the truncation.                                                   *)
TempToDps(temp, temp_step) == Trunc(Tenths(temp), temp_step)

UpperLetters == "ABCDEFGHIJKLMNOPQRSTUVWXYZ"
LowerLetters == "abcdefghijklmnopqrstuvwxyz"

LowerChar(c) ==
    IF \E i \in 1..Len(UpperLetters) : SubSeq(UpperLetters, i, i) = c
    THEN LET i == CHOOSE j \in 1..Len(UpperLetters) : SubSeq(UpperLetters, j, j) = c
         IN  SubSeq(LowerLetters, i, i)
    ELSE c

(* str.lower() *)
RECURSIVE Lower(_)
Lower(str) ==
    IF Len(str) = 0 THEN str
    ELSE LowerChar(SubSeq(str, 1, 1)) \o Lower(SubSeq(str, 2, Len(str)))

(* state_map = {v: k for k, v in entity.states.items()}; state_map.get(cmd): *)
(* the key of the last pair of `states` whose value is cmd, "" if none.    *)
RECURSIVE StateMapFrom(_, _, _)
StateMapFrom(states, cmd, i) ==
    IF i = 0 THEN ""
    ELSE IF states[i][2] = cmd THEN states[i][1] ELSE StateMapFrom(states, cmd, i - 1)

InStateMap(states, cmd) == \E i \in 1..Len(states) : states[i][2] = cmd

(* mqtt_handler.py lines 115-133: light, switch, fan.  Brightness and      *)
(* color_temp payloads are integers here; with the ranges of this model    *)
(* the float expression and the exact quotient truncate alike.             *)
TranslateLight(E, data) ==
    LET switch_dps == GetDpsFrom(E.dps_map, "switch", 1)
        c1 == IF "state" \in DOMAIN data /\ Truthy(switch_dps)
              THEN DictSet(EmptyDict, switch_dps, B(StateIsOn(data["state"])))
              ELSE EmptyDict
        doB == "brightness" \in DOMAIN data /\ E.platform \in {"light", "fan"}
        brightness_dps == GetDpsFrom(E.dps_map,
                              IF E.platform = "light" THEN "brightness" ELSE "speed", 1)
        rangeB == IF E.platform = "light" THEN E.brightness_range ELSE E.speed_range
        c2 == IF doB /\ Truthy(brightness_dps)
              THEN DictSet(c1, brightness_dps,
                           I(Rescale(rangeB, Num(data["brightness"]), MqttBrightnessFull)))
              ELSE c1
        doC == "color_temp" \in DOMAIN data /\ E.platform = "light"
        color_temp_dps == GetDpsFrom(E.dps_map, "color_temp", 1)
        c3 == IF doC /\ Truthy(color_temp_dps)
              THEN DictSet(c2, color_temp_dps,
                           I(Rescale(E.color_temp_range, Num(data["color_temp"]), MqttColorTempFull)))
              ELSE c2
        typeError == \/ doB /\ Truthy(brightness_dps) /\ ~IsNumber(data["brightness"])
                     \/ doC /\ Truthy(color_temp_dps) /\ ~IsNumber(data["color_temp"])
    IN  IF typeError THEN Raised ELSE Translated(c3)

(* mqtt_handler.py lines 136-151: climate *)
TranslateClimate(E, data) ==
    LET mode_dps == GetDpsFrom(E.dps_map, "mode", 1)
        c1 == IF "mode" \in DOMAIN data /\ Truthy(mode_dps)
              THEN DictSet(EmptyDict, mode_dps, data["mode"])
              ELSE EmptyDict
        doT == "target_temp" \in DOMAIN data \/ "temperature" \in DOMAIN data
        temp_dps == GetDpsFrom(E.dps_map, "target_temp", 1)
        temp == IF "target_temp" \in DOMAIN data THEN data["target_temp"]
                ELSE data["temperature"]
        writeT == doT /\ Truthy(temp_dps) /\ TruthyValue(temp)
        c2 == IF writeT /\ IsReal(temp)
              THEN DictSet(c1, temp_dps, I(TempToDps(temp, E.temp_step)))
              ELSE c1
        fan_dps == GetDpsFrom(E.dps_map, "fan_mode", 1)
        c3 == IF "fan_mode" \in DOMAIN data /\ Truthy(fan_dps)
              THEN DictSet(c2, fan_dps, data["fan_mode"])
              ELSE c2
    IN  IF writeT /\ ~IsReal(temp) THEN Raised ELSE Translated(c3)

(* mqtt_handler.py lines 179-185: alarm_control_panel *)
TranslateAlarm(E, data) ==
    LET state_dps == GetDpsFrom(E.dps_map, "state", 1)
        cmd == Lower(data["command"].v)
    IN  IF "command" \notin DOMAIN data THEN Translated(EmptyDict)
        ELSE IF data["command"].t # "str" THEN Raised
        ELSE IF Truthy(state_dps) /\ InStateMap(E.states, cmd)
             THEN Translated(DictSet(EmptyDict, state_dps,
                                     S(StateMapFrom(E.states, cmd, Len(E.states)))))
             ELSE Translated(EmptyDict)

(* What the command of a vacuum payload writes (lines 190-200); a DPS that  *)
(* is not mapped is the key None.                                          *)
VacuumCommand(E, data) ==
    LET cmd == Lower(data["command"].v)
        power_dps == GetDpsFrom(E.dps_map, "power", 1)
        mode_dps == GetDpsFrom(E.dps_map, "mode", 1)
    IN  IF "command" \notin DOMAIN data THEN EmptyDict
        ELSE IF cmd = "start" THEN DictSet(EmptyDict, power_dps, B(TRUE))
        ELSE IF cmd = "stop" \/ cmd = "pause" THEN DictSet(EmptyDict, power_dps, B(FALSE))
        ELSE IF cmd = "return_to_base" THEN DictSet(EmptyDict, mode_dps, S("return"))
        ELSE EmptyDict

(* A vacuum branch in which the command is looked at after the mode field. *)
TranslateVacuumModeFirst(E, data) ==
    LET mode_dps == GetDpsFrom(E.dps_map, "mode", 1)
        c1 == IF "mode" \in DOMAIN data /\ Truthy(mode_dps)
              THEN DictSet(EmptyDict, mode_dps, data["mode"])
              ELSE EmptyDict
        c2 == VacuumCommand(E, data)
    IN  IF "command" \in DOMAIN data /\ data["command"].t # "str" THEN Raised
        ELSE Translated([n \in DOMAIN c1 \cup DOMAIN c2 |->
                            IF n \in DOMAIN c2 THEN c2[n] ELSE c1[n]])

(* mqtt_handler.py lines 188-204: vacuum *)
TranslateVacuum(E, data) ==
    LET mode_dps == GetDpsFrom(E.dps_map, "mode", 1)
        c1 == VacuumCommand(E, data)
        c2 == IF "mode" \in DOMAIN data /\ Truthy(mode_dps)
              THEN DictSet(c1, mode_dps, data["mode"])
              ELSE c1
    IN  IF "command" \in DOMAIN data /\ data["command"].t # "str" THEN Raised
        ELSE Translated(c2)

(* MQTTHandler._handle_entity_command lines 110-236 on an entity           *)
(* configuration; the platforms of this model that have no branch (sensor) *)
(* translate to nothing.                                                   *)
TranslateCommandOf(E, data) ==
    IF E.platform \in {"light", "switch", "fan"} THEN TranslateLight(E, data)
    ELSE IF E.platform = "climate" THEN TranslateClimate(E, data)
    ELSE IF E.platform = "alarm_control_panel" THEN TranslateAlarm(E, data)
    ELSE IF E.platform = "vacuum" THEN TranslateVacuum(E, data)
    ELSE Translated(EmptyDict)

TranslateCommand(e, data) == TranslateCommandOf(Ent(e), data)

(* A handler that applies whatever the translation gave. *)
OutcomeAlwaysApplies(tr) == IF tr.raise THEN "error" ELSE "command"

(* mqtt_handler.py lines 238 and 251: what the handler does with a         *)
(* translation: log the exception, do nothing (`if dps_changes:` is        *)
(* false), or write, wait, refresh and publish.                            *)
Outcome(tr) ==
    IF tr.raise THEN "error" ELSE IF tr.changes = EmptyDict THEN "noop" ELSE "command"

(* WebServer._handle_entity_control lines 146-179: the fields state,       *)
(* brightness/level, temperature/target_temp and mode.                     *)
TranslateControlOf(E, data) ==
    LET switch_dps == Or(Or(GetDpsFrom(E.dps_map, "switch", 1),
                            GetDpsFrom(E.dps_map, "power", 1)),
                         GetDpsFrom(E.dps_map, "lock", 1))
        c1 == IF "state" \in DOMAIN data /\ Truthy(switch_dps)
              THEN DictSet(EmptyDict, switch_dps, data["state"])
              ELSE EmptyDict
        doB == "brightness" \in DOMAIN data \/ "level" \in DOMAIN data
        value == IF "brightness" \in DOMAIN data THEN data["brightness"]
                 ELSE IF "level" \in DOMAIN data THEN data["level"] ELSE I(0)
        brightness_dps == Or(GetDpsFrom(E.dps_map, "brightness", 1),
                             GetDpsFrom(E.dps_map, "speed", 1))
        rangeB == IF E.platform = "light" THEN E.brightness_range ELSE E.speed_range
        c2 == IF doB /\ Truthy(brightness_dps)
              THEN DictSet(c1, brightness_dps, I(Rescale(rangeB, Num(value), WebBrightnessFull)))
              ELSE c1
        doT == "temperature" \in DOMAIN data \/ "target_temp" \in DOMAIN data
        temp == IF "temperature" \in DOMAIN data THEN data["temperature"]
                ELSE data["target_temp"]
        temp_dps == GetDpsFrom(E.dps_map, "target_temp", 1)
        writeT == doT /\ Truthy(temp_dps)
        c3 == IF writeT /\ IsReal(temp)
              THEN DictSet(c2, temp_dps, I(TempToDps(temp, E.temp_step)))
              ELSE c2
        mode_dps == GetDpsFrom(E.dps_map, "mode", 1)
        c4 == IF "mode" \in DOMAIN data /\ Truthy(mode_dps)
              THEN DictSet(c3, mode_dps, data["mode"])
              ELSE c3
        typeError == \/ doB /\ Truthy(brightness_dps) /\ ~IsNumber(value)
                     \/ writeT /\ ~IsReal(temp)
    IN  IF typeError THEN Raised ELSE Translated(c4)

TranslateControl(e, data) == TranslateControlOf(Ent(e), data)

(* TuyaDevice.get_entity_by_id: the first entity whose entity_id           *)
(* (device_id + "_" + name) equals the id asked for; 0 when none does.     *)
EntityId(device_id, name) == device_id \o "_" \o name

entity_id(e) == EntityId(e[1], Ent(e).name)

RECURSIVE GetEntityFrom(_, _, _)
GetEntityFrom(d, id, i) ==
    IF i > Len(Entities(d)) THEN 0
    ELSE IF entity_id(<<d, i>>) = id THEN i ELSE GetEntityFrom(d, id, i + 1)

(* A lookup that falls back to the device's first entity. *)
GetEntityOrFirst(d, id) ==
    IF GetEntityFrom(d, id, 1) = 0 THEN 1 ELSE GetEntityFrom(d, id, 1)

get_entity_by_id(d, id) == GetEntityFrom(d, id, 1)

(* What DeviceLink.set_value / set_multiple_values can do: answer, answer  *)
(* with an error result, or raise.                                         *)
WriteOutcomes == {"ok", "error", "raise"}

(* TuyaDevice.set_dps / set_multiple_dps: True unless the link raised *)
WriteResult(o) == o # "raise"

(* A write whose except branch marks the device unavailable, as the        *)
(* refresh does.                                                           *)
SetDpsMarksFailure(d, o) == IF o = "raise" THEN FailAvailable(d) ELSE available

(* set_dps lines 207-221, set_multiple_dps lines 225-239: neither branch   *)
(* assigns self.available (nor last_state, last_update, entity state).     *)
SetDpsAvailable(d, o) == available

(* set_dps lines 207-221: True when set_value and log_event both came     *)
(* back, False from the except branch.                                     *)
SetDpsResult(o, so) == WriteResult(o) /\ StoreCall(so) = "returned"

(* A router that always sends the batched write. *)
ApplyCallBatched(changes, o) ==
    [op |-> "set_multiple_dps", arg |-> changes, res |-> o, ok |-> WriteResult(o)]

(* lines 239-243: one value -> set_dps, several -> set_multiple_dps; res is *)
(* what the link did, ok what set_dps / set_multiple_dps returns.          *)
ApplyCall(changes, o) ==
    IF Cardinality(DOMAIN changes) = 1
    THEN [op |-> "set_dps", arg |-> changes, res |-> o, ok |-> WriteResult(o)]
    ELSE [op |-> "set_multiple_dps", arg |-> changes, res |-> o, ok |-> WriteResult(o)]

-----------------------------------------------------------------------------
(* Inbound MQTT messages: the topic split at "/" after the base topic, and *)
(* the payload: JSON text with its parsed object, malformed JSON, or plain *)
(* text.                                                                   *)
Json(data) == [kind |-> "json", data |-> data, text |-> ""]
Raw(text) == [kind |-> "raw", data |-> EmptyDict, text |-> text]
BadJson == [kind |-> "badjson", data |-> EmptyDict, text |-> "{"]

Msg(topic, payload) == [topic |-> topic, payload |-> payload]

Messages ==
    { Msg(<<"d1", "lamp", "set">>, Json("state" :> S("ON"))),
      Msg(<<"d1", "lamp", "set">>, Json("state" :> S("OFF") @@ "brightness" :> I(255))),
      Msg(<<"d1", "lamp", "command">>, Raw("ON")),
      Msg(<<"d1", "lamp", "set">>, BadJson),
      Msg(<<"d1", "lamp", "set">>, Json("brightness" :> S("high"))),
      Msg(<<"d2", "temp", "set">>, Json("state" :> S("ON"))),
      Msg(<<"d1", "lamp", "set">>, Json("mode" :> S("eco"))),
      Msg(<<"d9", "lamp", "set">>, Json("state" :> S("ON"))),
      Msg(<<"d1", "lamp2", "set">>, Json("state" :> S("ON"))),
      Msg(<<"d1", "set">>, Json("state" :> S("ON"))),
      Msg(<<"bridge">>, Raw("ping")) }

(* mqtt_handler.py line 111 *)
ParsePayload(p) ==
    IF p.kind = "json" THEN [raise |-> FALSE, data |-> p.data]
    ELSE IF p.kind = "badjson" THEN [raise |-> TRUE, data |-> EmptyDict]
    ELSE [raise |-> FALSE, data |-> ("command" :> S(p.text))]

Routed(d, i, changes, what) == [dev |-> d, ent |-> i, changes |-> changes, disp |-> what]

(* MQTTHandler._on_message lines 79-106 and _handle_entity_command lines   *)
(* 110-238: everything up to the decision to apply DPS changes.            *)
Route(m) ==
    LET parts == m.topic
        device_id == parts[1]
        i == get_entity_by_id(device_id, device_id \o "_" \o parts[2])
        parsed == ParsePayload(m.payload)
        tr == TranslateCommand(<<device_id, i>>, parsed.data)
    IN  IF Len(parts) < 2 THEN Routed("none", 0, EmptyDict, "short_topic")
        ELSE IF device_id \notin Devices THEN Routed("none", 0, EmptyDict, "unknown_device")
        ELSE IF ~(Len(parts) >= 3 /\ parts[3] \in {"set", "command"})
             THEN Routed(device_id, 0, EmptyDict, "not_command")
        ELSE IF i = 0 THEN Routed(device_id, 0, EmptyDict, "unknown_entity")
        ELSE IF parsed.raise THEN Routed(device_id, i, EmptyDict, "error")
        ELSE Routed(device_id, i, tr.changes, Outcome(tr))

(* The MQTT thread takes the next message off the network. *)
m_message ==
    /\ pc["mqtt"] = "m_idle"
    /\ Connected
    /\ MayStart
    /\ \E m \in Messages :
          LET r == Route(m)
          IN  /\ msg' = m
              /\ dev' = [dev EXCEPT !["mqtt"] = r.dev]
              /\ ent' = [ent EXCEPT !["mqtt"] = r.ent]
              /\ dps_changes' = [dps_changes EXCEPT !["mqtt"] = r.changes]
              /\ disp' = [disp EXCEPT !["mqtt"] = r.disp]
              /\ pc' = [pc EXCEPT !["mqtt"] = IF r.disp = "command" THEN "m_apply" ELSE "m_done"]
    /\ UNCHANGED <<availability, storefail, last_state, last_update, available, state, polling, mainpc, calc, inflight, raised, wcall, eidx,
                   kidx, status, dps_values, ret, didx, polled, log>>

(* lines 238-243: device.set_dps(dps, value) or device.set_multiple_dps(dps_changes); *)
(* the result is not looked at.                                            *)
m_apply(so) ==
    /\ pc["mqtt"] = "m_apply"
    /\ \E o \in WriteOutcomes :
          /\ so = "fail" => o # "raise"
          /\ wcall' = [wcall EXCEPT !["mqtt"] =
                          [ApplyCall(dps_changes["mqtt"], o) EXCEPT !.ok = SetDpsResult(o, so)]]
          /\ available' = SetDpsAvailable(dev["mqtt"], o)
    /\ storefail' = [storefail EXCEPT !["mqtt"] = (so = "fail")]
    /\ log' = [log EXCEPT !["mqtt"] = Append(@, "write")]
    /\ msg' = NoMsg
    /\ pc' = [pc EXCEPT !["mqtt"] = AfterWrite("mqtt")]
    /\ UNCHANGED <<availability, last_state, last_update, state, polling, mainpc, calc, inflight, raised, ent, disp,
                   dev, eidx, kidx, status, dps_values, ret, dps_changes, didx, polled>>

(* lines 246-248: time.sleep(0.5), then device.get_status() is called *)
m_sleep ==
    /\ pc["mqtt"] = "m_sleep"
    /\ log' = [log EXCEPT !["mqtt"] = Append(@, "sleep")]
    /\ wcall' = [wcall EXCEPT !["mqtt"] = NoCall]
    /\ dps_changes' = [dps_changes EXCEPT !["mqtt"] = EmptyDict]
    /\ pc' = [pc EXCEPT !["mqtt"] = "gs_status"]
    /\ storefail' = [storefail EXCEPT !["mqtt"] = FALSE]
    /\ UNCHANGED <<availability, last_state, last_update, available, state, polling, mainpc, calc, inflight, msg, raised, ent,
                   disp, dev, eidx, kidx, status, dps_values, ret, didx, polled>>

(* _on_message returns (also through its `except Exception`, lines 105-106, *)
(* and that of _handle_entity_command, lines 251-252).                      *)
m_return ==
    /\ pc["mqtt"] = "m_done"
    /\ msg' = NoMsg
    /\ dev' = [dev EXCEPT !["mqtt"] = "none"]
    /\ ent' = [ent EXCEPT !["mqtt"] = 0]
    /\ disp' = [disp EXCEPT !["mqtt"] = "none"]
    /\ log' = [log EXCEPT !["mqtt"] = <<>>]
    /\ wcall' = [wcall EXCEPT !["mqtt"] = NoCall]
    /\ dps_changes' = [dps_changes EXCEPT !["mqtt"] = EmptyDict]
    /\ pc' = [pc EXCEPT !["mqtt"] = "m_idle"]
    /\ storefail' = [storefail EXCEPT !["mqtt"] = FALSE]
    /\ UNCHANGED <<availability, last_state, last_update, available, state, polling, mainpc, calc, inflight, raised, eidx, kidx,
                   status, dps_values, ret, didx, polled>>

-----------------------------------------------------------------------------
(* HTTP requests handled by the Flask thread: GET /api/device/<id> and     *)
(* POST /api/device/<id>/entity/<name>/set with a JSON body.               *)
Get(d) == [method |-> "GET", device |-> d, entity |-> "", data |-> EmptyDict]
Post(d, n, data) == [method |-> "POST", device |-> d, entity |-> n, data |-> data]

Requests ==
    { Get("d1"), Get("d9"),
      Post("d1", "lamp", "state" :> B(TRUE)),
      Post("d1", "lamp", "state" :> B(FALSE) @@ "brightness" :> I(50)),
      Post("d1", "lamp", EmptyDict),
      Post("d1", "lamp2", "state" :> B(TRUE)),
      Post("d9", "lamp", "state" :> B(TRUE)) }

(* web_server.py get_device lines 50-55, set_entity lines 57-68 and        *)
(* _handle_entity_control lines 143-193: up to the decision to write.      *)
RouteHttp(req) ==
    LET d == req.device
        i == get_entity_by_id(d, d \o "_" \o req.entity)
        tr == TranslateControl(<<d, i>>, req.data)
    IN  IF d \notin Devices THEN Routed("none", 0, EmptyDict, "404")
        ELSE IF req.method = "GET" THEN Routed(d, 0, EmptyDict, "read")
        ELSE IF i = 0 THEN Routed(d, 0, EmptyDict, "404")
        ELSE IF tr.raise \/ tr.changes = EmptyDict THEN Routed(d, i, EmptyDict, "400")
        ELSE Routed(d, i, tr.changes, "command")

h_request ==
    /\ pc["http"] = "h_idle"
    /\ MayStart
    /\ \E req \in Requests :
          LET r == RouteHttp(req)
          IN  /\ dev' = [dev EXCEPT !["http"] = r.dev]
              /\ ent' = [ent EXCEPT !["http"] = r.ent]
              /\ dps_changes' = [dps_changes EXCEPT !["http"] = r.changes]
              /\ disp' = [disp EXCEPT !["http"] = r.disp]
              /\ pc' = [pc EXCEPT !["http"] = IF r.disp = "command" THEN "h_apply"
                                              ELSE IF r.disp = "read" THEN "td_dev"
                                              ELSE "h_done"]
    /\ UNCHANGED <<availability, storefail, last_state, last_update, available, state, polling, mainpc, calc, inflight, msg, raised, wcall, eidx, kidx,
                   status, dps_values, ret, didx, polled, log>>

(* _handle_entity_control lines 193-198 and set_entity lines 68-75: the    *)
(* write, whose result decides between the refresh and the 400 answer.     *)
h_apply(so) ==
    /\ pc["http"] = "h_apply"
    /\ \E o \in WriteOutcomes :
          /\ so = "fail" => o # "raise"
          /\ wcall' = [wcall EXCEPT !["http"] =
                          [ApplyCall(dps_changes["http"], o) EXCEPT !.ok = SetDpsResult(o, so)]]
          /\ pc' = [pc EXCEPT !["http"] = AfterControl(SetDpsResult(o, so))]
          /\ available' = SetDpsAvailable(dev["http"], o)
    /\ storefail' = [storefail EXCEPT !["http"] = (so = "fail")]
    /\ log' = [log EXCEPT !["http"] = Append(@, "write")]
    /\ UNCHANGED <<availability, last_state, last_update, state, polling, mainpc, calc, inflight, msg, raised, ent, disp, dev,
                   eidx, kidx, status, dps_values, ret, dps_changes, didx, polled>>

(* set_entity line 75: return jsonify({'success': False}), 400 *)
h_fail ==
    /\ pc["http"] = "h_fail"
    /\ wcall' = [wcall EXCEPT !["http"] = NoCall]
    /\ dps_changes' = [dps_changes EXCEPT !["http"] = EmptyDict]
    /\ disp' = [disp EXCEPT !["http"] = "400"]
    /\ pc' = [pc EXCEPT !["http"] = "h_done"]
    /\ storefail' = [storefail EXCEPT !["http"] = FALSE]
    /\ UNCHANGED <<availability, last_state, last_update, available, state, polling, mainpc, calc, inflight, msg, raised, ent, dev,
                   eidx, kidx, status, dps_values, ret, didx, polled, log>>

(* set_entity lines 71-72: time.sleep(0.5), then device.get_status() *)
h_sleep ==
    /\ pc["http"] = "h_sleep"
    /\ log' = [log EXCEPT !["http"] = Append(@, "sleep")]
    /\ wcall' = [wcall EXCEPT !["http"] = NoCall]
    /\ dps_changes' = [dps_changes EXCEPT !["http"] = EmptyDict]
    /\ pc' = [pc EXCEPT !["http"] = "gs_status"]
    /\ storefail' = [storefail EXCEPT !["http"] = FALSE]
    /\ UNCHANGED <<availability, last_state, last_update, available, state, polling, mainpc, calc, inflight, msg, raised, ent, disp, dev,
                   eidx, kidx, status, dps_values, ret, didx, polled>>

(* set_entity line 73: the answer carries entity.to_dict(), read here *)
h_resp ==
    /\ pc["http"] = "h_resp"
    /\ disp' = [disp EXCEPT !["http"] = "200"]
    /\ ret' = [ret EXCEPT !["http"] = None]
    /\ pc' = [pc EXCEPT !["http"] = "h_done"]
    /\ storefail' = [storefail EXCEPT !["http"] = FALSE]
    /\ UNCHANGED <<availability, last_state, last_update, available, state, polling, mainpc, calc, inflight, msg, raised, wcall, ent, dev,
                   eidx, kidx, status, dps_values, dps_changes, didx, polled, log>>

(* TuyaDevice.to_dict lines 250-258, in evaluation order: available and    *)
(* last_update, *)
td_dev ==
    /\ pc["http"] = "td_dev"
    /\ eidx' = [eidx EXCEPT !["http"] = 1]
    /\ pc' = [pc EXCEPT !["http"] = "td_ent"]
    /\ UNCHANGED <<availability, storefail, last_state, last_update, available, state, polling, mainpc, calc, inflight, msg, raised, wcall, ent, disp, dev,
                   kidx, status, dps_values, ret, dps_changes, didx, polled, log>>

(* then each entity's to_dict (Entity.to_dict lines 119-129 reads state), *)
td_ent ==
    /\ pc["http"] = "td_ent"
    /\ eidx' = [eidx EXCEPT !["http"] = @ + 1]
    /\ pc' = [pc EXCEPT !["http"] = IF eidx["http"] >= Len(Entities(dev["http"]))
                                    THEN "td_raw" ELSE "td_ent"]
    /\ UNCHANGED <<availability, storefail, last_state, last_update, available, state, polling, mainpc, calc, inflight, msg, raised, wcall, ent, disp, dev,
                   kidx, status, dps_values, ret, dps_changes, didx, polled, log>>

(* then raw_state = last_state; the answer is sent. *)
td_raw ==
    /\ pc["http"] = "td_raw"
    /\ eidx' = [eidx EXCEPT !["http"] = 0]
    /\ disp' = [disp EXCEPT !["http"] = "200"]
    /\ pc' = [pc EXCEPT !["http"] = "h_done"]
    /\ UNCHANGED <<availability, storefail, last_state, last_update, available, state, polling, mainpc, calc, inflight, msg, raised, wcall, ent, dev,
                   kidx, status, dps_values, ret, dps_changes, didx, polled, log>>

(* The request handler has returned its answer. *)
h_return ==
    /\ pc["http"] = "h_done"
    /\ dev' = [dev EXCEPT !["http"] = "none"]
    /\ ent' = [ent EXCEPT !["http"] = 0]
    /\ disp' = [disp EXCEPT !["http"] = "none"]
    /\ log' = [log EXCEPT !["http"] = <<>>]
    /\ pc' = [pc EXCEPT !["http"] = "h_idle"]
    /\ UNCHANGED <<availability, storefail, last_state, last_update, available, state, polling, mainpc, calc, inflight, msg, raised, wcall, eidx, kidx,
                   status, dps_values, ret, dps_changes, didx, polled>>

-----------------------------------------------------------------------------
-----------------------------------------------------------------------------
(* Home Assistant discovery of a light (homeassistant.py).                 *)

(* entity.get_dps(key) is not None *)
HasDps(E, key) == GetDpsFrom(E.dps_map, key, 1) # NoneDps

(* A light that lists every capability it has. *)
ListEveryMode(E) ==
    (IF HasDps(E, "brightness") THEN <<"brightness">> ELSE <<>>)
    \o (IF HasDps(E, "color_temp") THEN <<"color_temp">> ELSE <<>>)
    \o (IF HasDps(E, "color") THEN <<"hs">> ELSE <<>>)

(* HomeAssistantDiscovery._get_light_color_modes lines 235-265 *)
get_light_color_modes(E) ==
    IF HasDps(E, "color") THEN <<"hs">>
    ELSE IF HasDps(E, "color_temp") THEN <<"color_temp">>
    ELSE IF HasDps(E, "brightness") THEN <<"brightness">>
    ELSE <<"onoff">>

(* brightness_scale of the discovery payload (homeassistant.py line 91) *)
BrightnessScale == 255

(* _publish_entity_discovery lines 76-91: the light's part of the payload; *)
(* brightness_scale 0 stands for the key being absent.                     *)
LightDiscovery(E) ==
    LET color_modes == get_light_color_modes(E)
    IN  [supported_color_modes |-> color_modes,
         brightness_scale |-> IF \E i \in 1..Len(color_modes) : color_modes[i] = "brightness"
                              THEN BrightnessScale ELSE 0]

(* Light configurations: a switch DPS and any of the three optional ones. *)
LightMap(b, ct, c) ==
    << <<"switch", 1>> >>
    \o (IF b THEN << <<"brightness", 2>> >> ELSE <<>>)
    \o (IF ct THEN << <<"color_temp", 3>> >> ELSE <<>>)
    \o (IF c THEN << <<"color", 5>> >> ELSE <<>>)

SampleLights ==
    {MkEntity("light", "lamp", LightMap(b, ct, c), 1) : b \in BOOLEAN, ct \in BOOLEAN, c \in BOOLEAN}

(* The discovery payload of one light is computed. *)
calc_color_modes ==
    /\ calc = NoCalc
    /\ \E E \in SampleLights :
          calc' = [fn |-> "color_modes", ent |-> E, data |-> EmptyDict,
                   out |-> LightDiscovery(E)]
    /\ UNCHANGED <<availability, storefail, last_state, last_update, available, state, polling, pc, dev, eidx, kidx,
                   status, dps_values, ret, dps_changes, didx, ent, polled, log, wcall,
                   disp, msg, raised, mainpc, inflight>>

-----------------------------------------------------------------------------
(* Entity configurations and payloads on which the translation of commands *)
(* is evaluated.                                                           *)

(* temp_step values, in tenths: 0.5 (the default) and 1.0 *)
TempSteps == {DefaultTempStep, 10}

(* The highest temperature of a payload, in tenths. *)
MaxTemp == 350

SampleFan == MkEntity("fan", "fan", << <<"switch", 1>>, <<"speed", 3>> >>, 1)

SampleClimates ==
    {[MkEntity("climate", "ac", << <<"mode", 4>>, <<"target_temp", 2>> >>, 1)
         EXCEPT !.temp_step = st] : st \in TempSteps}

SampleAlarm ==
    [MkEntity("alarm_control_panel", "alarm", << <<"state", 1>> >>, 1)
        EXCEPT !.states = << <<"disarmed", "disarmed">>, <<"armed_home", "home">>,
                             <<"armed_away", "away">>, <<"armed_vacation", "away">>,
                             <<"armed_night", "Night">> >>]

(* Vacuums that map power and mode, only the power, only the mode. *)
SampleVacuums ==
    {MkEntity("vacuum", "vacuum", << <<"power", 1>>, <<"mode", 4>> >>, 1),
     MkEntity("vacuum", "vacuum", << <<"power", 1>> >>, 1),
     MkEntity("vacuum", "vacuum", << <<"mode", 4>> >>, 1)}

VacuumCommands == {"start", "stop", "pause", "return_to_base", "START", "locate"}

SampleEntities ==
    SampleLights \cup {SampleFan, SampleAlarm} \cup SampleClimates \cup SampleVacuums
    \cup {Ent(e) : e \in EntityRefs}

StateValues == {S("ON"), S("OFF"), S("true"), B(TRUE), B(FALSE), I(1), I(0)}

SamplePayloads ==
    {("state" :> x) : x \in StateValues}
    \cup {("brightness" :> I(b)) : b \in 0..MqttBrightnessFull}
    \cup {("state" :> S("ON") @@ "brightness" :> I(b)) : b \in {0, 128, 255}}
    \cup {("speed" :> I(p)) : p \in 0..WebBrightnessFull}
    \cup {("percentage" :> I(p)) : p \in 0..WebBrightnessFull}
    \cup {("target_temp" :> D(n)) : n \in 0..MaxTemp}
    \cup {("temperature" :> I(n)) : n \in 0..(MaxTemp \div 10)}
    \cup {("target_temp" :> S("21.5"))}
    \cup {("mode" :> S("cool"))}
    \cup {("command" :> S(c)) : c \in {"home", "HOME", "Disarmed", "away", "Night", "party", "ON", "OFF"}}
    \cup {("command" :> I(1))}
    \cup {("command" :> S(c)) : c \in VacuumCommands}
    \cup {("command" :> S(c) @@ "mode" :> m) : c \in VacuumCommands, m \in {S("spot"), I(2)}}
    \cup {("mode" :> I(2))}

(* _handle_entity_command translates one payload for one entity. *)
calc_command ==
    /\ calc = NoCalc
    /\ \E E \in SampleEntities : \E data \in SamplePayloads :
          calc' = [fn |-> "command", ent |-> E, data |-> data,
                   out |-> TranslateCommandOf(E, data),
                   disp |-> Outcome(TranslateCommandOf(E, data))]
    /\ UNCHANGED <<availability, storefail, last_state, last_update, available, state, polling, pc, dev, eidx, kidx,
                   status, dps_values, ret, dps_changes, didx, ent, polled, log, wcall,
                   disp, msg, raised, mainpc, inflight>>

(* _handle_entity_control translates one request body for one entity. *)
calc_control ==
    /\ calc = NoCalc
    /\ \E E \in SampleEntities : \E data \in SamplePayloads :
          calc' = [fn |-> "control", ent |-> E, data |-> data,
                   out |-> TranslateControlOf(E, data)]
    /\ UNCHANGED <<availability, storefail, last_state, last_update, available, state, polling, pc, dev, eidx, kidx,
                   status, dps_values, ret, dps_changes, didx, ent, polled, log, wcall,
                   disp, msg, raised, mainpc, inflight>>

-----------------------------------------------------------------------------
(* Shutdown: the signal handler of main() calls Tuya2MQTT.stop and then    *)
(* sys.exit(0) (main.py 78-95, 107-110).                                   *)

(* DeviceManager.stop_polling line 307: self.polling = False *)
stop_polling ==
    /\ mainpc = "run"
    /\ polling' = FALSE
    /\ inflight' = (pc["poll"] \in {"gs_status", "gs_last_state", "gs_last_update",
                                    "gs_available", "gs_for", "us_reset", "us_for",
                                    "gs_save", "gs_log", "gs_nodps", "gs_except"})
    /\ mainpc' = "join"
    /\ UNCHANGED <<availability, storefail, last_state, last_update, available, state, pc, dev, eidx, kidx, status,
                   dps_values, ret, dps_changes, didx, ent, polled, log, wcall, disp,
                   msg, raised, calc>>

(* DeviceManager.stop_polling lines 308-309: self.poll_thread.join(timeout=5) *)
(* returns when the poll thread has ended, or when the five seconds are    *)
(* over, wherever the poll thread is then.                                 *)
poll_join ==
    /\ mainpc = "join"
    /\ mainpc' = "disconnect"
    /\ UNCHANGED <<availability, storefail, last_state, last_update, available, state, polling, pc, dev, eidx, kidx,
                   status, dps_values, ret, dps_changes, didx, ent, polled, log, wcall,
                   disp, msg, raised, calc, inflight>>

(* MQTTHandler.disconnect lines 50-56: loop_stop() waits for the network   *)
(* thread, so for the message callback that is running, then disconnect(). *)
disconnect ==
    /\ mainpc = "disconnect"
    /\ pc["mqtt"] = "m_idle"
    /\ mainpc' = "close"
    /\ UNCHANGED <<availability, storefail, last_state, last_update, available, state, polling, pc, dev, eidx, kidx,
                   status, dps_values, ret, dps_changes, didx, ent, polled, log, wcall,
                   disp, msg, raised, calc, inflight>>

(* main.py 90-93: web_server.stop() (which only logs) and database.close() *)
close ==
    /\ mainpc = "close"
    /\ mainpc' = "exit"
    /\ UNCHANGED <<availability, storefail, last_state, last_update, available, state, polling, pc, dev, eidx, kidx,
                   status, dps_values, ret, dps_changes, didx, ent, polled, log, wcall,
                   disp, msg, raised, calc, inflight>>

(* main.py 110: sys.exit(0); the poll thread and the web thread are daemon *)
(* threads and end with the process, wherever they are.                    *)
sys_exit ==
    /\ mainpc = "exit"
    /\ mainpc' = "exited"
    /\ UNCHANGED <<availability, storefail, last_state, last_update, available, state, polling, pc, dev, eidx, kidx,
                   status, dps_values, ret, dps_changes, didx, ent, polled, log, wcall,
                   disp, msg, raised, calc, inflight>>

Next ==
    \/ \E t \in Threads : gs_status(t)
    \/ \E t \in Threads : gs_last_state(t)
    \/ \E t \in Threads : gs_last_update(t)
    \/ \E t \in Threads : gs_available(t)
    \/ \E t \in Threads : gs_for(t)
    \/ \E t \in Threads : us_reset(t)
    \/ \E t \in Threads : us_for(t)
    \/ \E t \in Threads : gs_save(t, "ok")
    \/ \E t \in Threads : gs_return(t, "ok")
    \/ \E t \in Threads : gs_nodps(t)
    \/ \E t \in Threads : gs_except(t)
    \/ poll_while
    \/ poll_for
    \/ poll_next
    \/ poll_sleep
    \/ \E t \in Publishers : pub_avail(t)
    \/ \E t \in Publishers : pub_check(t)
    \/ \E t \in Publishers : pub_for(t)
    \/ \E t \in Publishers : pub_raw(t)
    \/ \E t \in Publishers : pub_raise(t)
    \/ m_message
    \/ m_apply("ok")
    \/ m_sleep
    \/ m_return
    \/ h_request
    \/ h_apply("ok")
    \/ h_fail
    \/ h_sleep
    \/ h_resp
    \/ td_dev
    \/ td_ent
    \/ td_raw
    \/ h_return

Spec == Init /\ [][Next]_vars

(* The steps of one thread. *)
GetStatusStep(t) ==
    \/ gs_status(t) \/ gs_last_state(t) \/ gs_last_update(t) \/ gs_available(t)
    \/ gs_for(t) \/ us_reset(t) \/ us_for(t) \/ gs_save(t, "ok") \/ gs_return(t, "ok")
    \/ gs_nodps(t) \/ gs_except(t)

PublishStep(t) ==
    pub_avail(t) \/ pub_check(t) \/ pub_for(t) \/ pub_raw(t) \/ pub_raise(t)

PollStep ==
    \/ poll_while \/ poll_for \/ poll_next \/ poll_sleep
    \/ GetStatusStep("poll") \/ PublishStep("poll")

MqttStep ==
    \/ m_apply("ok") \/ m_sleep \/ m_return
    \/ GetStatusStep("mqtt") \/ PublishStep("mqtt")

HttpStep ==
    \/ h_apply("ok") \/ h_fail \/ h_sleep \/ h_resp \/ td_dev \/ td_ent \/ td_raw \/ h_return
    \/ GetStatusStep("http")

(* Scheduling: a thread that can take a step of the handler it is in takes *)
(* it (no thread is starved, no call blocks for ever); the poll loop,      *)
(* whose `while self.polling` waits for nothing, starts its next tick.     *)
Fairness ==
    /\ WF_vars(PollStep)
    /\ WF_vars(MqttStep)
    /\ WF_vars(HttpStep)
    /\ SF_vars(poll_while)

SpecLive == Init /\ [][Next]_vars /\ Fairness

(* The bridge with a shutdown signal arriving at any moment; nothing runs  *)
(* once the process has exited.                                            *)
NextStop ==
    /\ mainpc # "exited"
    /\ \/ Next
       \/ stop_polling
       \/ poll_join
       \/ disconnect
       \/ close
       \/ sys_exit

SpecStop == Init /\ [][NextStop]_vars

(* The bridge with a store whose calls can fail: the failing calls are     *)
(* added to the steps of Next.                                             *)
NextStore ==
    \/ Next
    \/ \E t \in Threads : gs_save(t, "fail")
    \/ \E t \in Threads : gs_return(t, "fail")
    \/ m_apply("fail")
    \/ h_apply("fail")

SpecStore == Init /\ [][NextStore]_vars

(* Device ids (the keys of `devices` in the configuration) and entity      *)
(* names; both are free text, and the example configuration uses "_" in    *)
(* both (config.py 60-210).                                                *)
SampleDeviceIds == {"d1", "a", "a_b"}

SampleNames == {"lamp", "main_light", "light", "b_light"}

(* The entity_id of two entities of the registry: the devices are keyed by *)
(* device id, the names are unique within a device, so two entities differ *)
(* in the device or in the name.                                           *)
calc_entity_id ==
    /\ calc = NoCalc
    /\ \E d1 \in SampleDeviceIds, n1 \in SampleNames, d2 \in SampleDeviceIds, n2 \in SampleNames :
          /\ <<d1, n1>> # <<d2, n2>>
          /\ calc' = [fn |-> "entity_id", ent |-> <<d1, n1>>, data |-> <<d2, n2>>,
                      out |-> <<EntityId(d1, n1), EntityId(d2, n2)>>]
    /\ UNCHANGED <<availability, storefail, last_state, last_update, available, state, polling, pc, dev, eidx, kidx,
                   status, dps_values, ret, dps_changes, didx, ent, polled, log, wcall,
                   disp, msg, raised, mainpc, inflight>>

-----------------------------------------------------------------------------
(* HomeAssistantDiscovery.sanitize_topic (homeassistant.py 17-31).  A text *)
(* is a sequence of characters; a character outside ASCII is written by    *)
(* its code point, "U+010D".                                               *)
AllowedChars ==
    {SubSeq(UpperLetters, i, i) : i \in 1..Len(UpperLetters)}
    \cup {SubSeq(LowerLetters, i, i) : i \in 1..Len(LowerLetters)}
    \cup {"0", "1", "2", "3", "4", "5", "6", "7", "8", "9", "_", "-"}

(* line 24: text.replace(' ', '_') *)
ReplaceSpaces(text) == [i \in 1..Len(text) |-> IF text[i] = " " THEN "_" ELSE text[i]]

(* line 26: re.sub(r'[^a-zA-Z0-9_-]', '', text) *)
IsAllowed(c) == c \in AllowedChars

RemoveDisallowed(text) == SelectSeq(text, IsAllowed)

(* A sanitizer that leaves runs of underscores as they are. *)
KeepUnderscores(text) == text

(* line 28: re.sub(r'_+', '_', text) *)
CollapseUnderscores(text) ==
    LET Kept(i) == text[i] # "_" \/ i = 1 \/ text[i - 1] # "_"
        F[i \in 0..Len(text)] ==
            IF i = 0 THEN <<>> ELSE IF Kept(i) THEN Append(F[i - 1], text[i]) ELSE F[i - 1]
    IN  F[Len(text)]

(* line 30: text.strip('_') *)
StripUnderscores(text) ==
    LET Inner == {i \in 1..Len(text) : text[i] # "_"}
    IN  IF Inner = {} THEN <<>>
        ELSE SubSeq(text, CHOOSE i \in Inner : \A j \in Inner : i <= j,
                          CHOOSE i \in Inner : \A j \in Inner : j <= i)

sanitize_topic(text) ==
    StripUnderscores(CollapseUnderscores(RemoveDisallowed(ReplaceSpaces(text))))

(* The characters of the sample names and their longest length. *)
SampleChars == {"a", "7", "-", "_", " ", "/", "U+010D"}

MaxLen == 5

Texts == UNION {[1..n -> SampleChars] : n \in 0..MaxLen}

(* A name is sanitized for a discovery topic (homeassistant.py 51-52). *)
calc_sanitize ==
    /\ calc = NoCalc
    /\ \E text \in Texts :
          calc' = [fn |-> "sanitize", ent |-> <<>>, data |-> text, out |-> sanitize_topic(text)]
    /\ UNCHANGED <<availability, storefail, last_state, last_update, available, state, polling, pc, dev, eidx, kidx,
                   status, dps_values, ret, dps_changes, didx, ent, polled, log, wcall,
                   disp, msg, raised, mainpc, inflight>>

-----------------------------------------------------------------------------
(* The topics of one entity (homeassistant.py 46-109, mqtt_handler.py      *)
(* 97-103 and 269-276).  Device ids and names are texts, a topic is the    *)
(* sequence of its levels after the base topic (after the discovery prefix *)
(* for a discovery topic).                                                 *)

(* Entity.entity_id (device.py 74-77) of a device id and a name as texts *)
EntityIdText(device_id, name) == device_id \o <<"_">> \o name

(* the level that ends the command topic of a platform *)
CommandLevel(platform) ==
    IF platform \in {"cover", "lock", "alarm_control_panel", "vacuum", "button"}
    THEN "command" ELSE "set"

HasCommandTopic(platform) == platform \notin {"sensor", "binary_sensor", "camera"}

(* _publish_entity_discovery *)
Discovery(device_id, platform, name) ==
    LET sanitized_entity_id == sanitize_topic(EntityIdText(device_id, name))
        entity_topic == <<device_id, sanitized_entity_id>>
    IN  [discovery_topic |-> <<platform, sanitized_entity_id, "config">>,
         unique_id |-> sanitized_entity_id,
         state_topic |-> entity_topic \o <<"state">>,
         command_topic |-> entity_topic \o <<CommandLevel(platform)>>]

NoEntity == [found |-> FALSE, name |-> <<>>]

(* _on_message, lines 97-103: the entity of the device that a topic names; *)
(* names are the names of the device's entities in their order.            *)
ResolveEntity(device_id, names, parts) ==
    IF Len(parts) >= 3 /\ parts[3] \in {"set", "command"}
    THEN LET entity_name == parts[2]
             hits == {i \in 1..Len(names) :
                         EntityIdText(device_id, names[i]) = EntityIdText(device_id, entity_name)}
         IN  IF hits = {} THEN NoEntity
             ELSE [found |-> TRUE,
                   name |-> names[CHOOSE i \in hits : \A j \in hits : i <= j]]
    ELSE NoEntity

(* publish_device_state, lines 271-276: where an entity's state goes *)
PublishedStateTopic(device_id, name) == <<device_id, name, "state">>

SampleDeviceTexts == { <<"d", "1">>, <<"a">>, <<"a", "_", "b">> }

SampleNameTexts ==
    { <<"l", "a", "m", "p">>, <<"a", " ", "b">>, <<"a", "_", "b">>, <<"b", "_", "l">>, <<"l">> }

SampleDiscoveryPlatforms == {"light", "switch", "cover", "sensor"}

(* Two entities of the registry are announced; the first one's command     *)
(* topic is routed and its state is published.                             *)
calc_discovery ==
    /\ calc = NoCalc
    /\ \E d1 \in SampleDeviceTexts, n1 \in SampleNameTexts,
          d2 \in SampleDeviceTexts, n2 \in SampleNameTexts, p \in SampleDiscoveryPlatforms :
          /\ <<d1, n1>> # <<d2, n2>>
          /\ LET names == IF d1 = d2 THEN <<n1, n2>> ELSE <<n1>>
                 first == Discovery(d1, p, n1)
             IN  calc' = [fn |-> "discovery", ent |-> <<d1, n1>>, data |-> <<d2, n2>>,
                          out |-> [platform |-> p,
                                   first |-> first,
                                   second |-> Discovery(d2, p, n2),
                                   resolved |-> ResolveEntity(d1, names, first.command_topic),
                                   published |-> PublishedStateTopic(d1, n1)]]
    /\ UNCHANGED <<availability, storefail, last_state, last_update, available, state, polling, pc, dev, eidx, kidx,
                   status, dps_values, ret, dps_changes, didx, ent, polled, log, wcall,
                   disp, msg, raised, mainpc, inflight>>

-----------------------------------------------------------------------------
(* Entity.get_state_value (device.py 97-115) *)
NoneValue == [t |-> "none", v |-> 0]

(* A lookup that forgets the default. *)
StateGetNoDefault(st, key, default) == IF key \in DOMAIN st THEN st[key] ELSE NoneValue

(* self.state.get(key, default) *)
StateGet(st, key, default) == IF key \in DOMAIN st THEN st[key] ELSE default

get_state_value(E, st) ==
    IF E.platform \in {"light", "switch", "fan", "lock"}
    THEN LET a == StateGet(st, "switch", B(FALSE))
         IN  IF TruthyValue(a) THEN a ELSE StateGet(st, "lock", B(FALSE))
    ELSE IF E.platform \in {"sensor", "number"} THEN StateGet(st, "value", I(0))
    ELSE IF E.platform = "binary_sensor" THEN StateGet(st, "state", B(FALSE))
    ELSE IF E.platform = "cover" THEN StateGet(st, "position", I(0))
    ELSE IF E.platform = "climate" THEN StateGet(st, "current_temp", I(20))
    ELSE IF E.platform = "alarm_control_panel" THEN StateGet(st, "state", S("disarmed"))
    ELSE IF E.platform = "vacuum" THEN StateGet(st, "status", S("docked"))
    ELSE IF E.platform = "select"
    THEN StateGet(st, "option", IF Len(E.options) > 0 THEN S(E.options[1]) ELSE S(""))
    ELSE NoneValue

(* SUPPORTED_PLATFORMS (device.py 13-18) and one platform outside it *)
SamplePlatforms ==
    {"light", "switch", "fan", "sensor", "binary_sensor", "climate", "cover", "lock",
     "alarm_control_panel", "vacuum", "camera", "humidifier", "water_heater", "button",
     "number", "select", "siren"}

(* Entity states: each key absent or present; switch and lock also with a  *)
(* false value.                                                            *)
Present(key, values) == {<<>>} \cup {(key :> x) : x \in values}

SampleStates ==
    {a @@ b @@ c @@ d @@ e @@ f @@ g @@ h :
        a \in Present("switch", {B(TRUE), B(FALSE)}),
        b \in Present("lock", {B(TRUE), B(FALSE), S("")}),
        c \in Present("value", {I(21)}),
        d \in Present("state", {S("armed_home")}),
        e \in Present("position", {I(50)}),
        f \in Present("current_temp", {I(22)}),
        g \in Present("status", {S("cleaning")}),
        h \in Present("option", {S("eco")})}

(* The main state value of one entity is read (device.py 185). *)
calc_state_value ==
    /\ calc = NoCalc
    /\ \E platform \in SamplePlatforms, st \in SampleStates, options \in {<<>>, <<"auto", "eco">>} :
          LET E == [MkEntity(platform, "entity", <<>>, 1) EXCEPT !.options = options]
          IN  calc' = [fn |-> "state_value", ent |-> E, data |-> st,
                       out |-> get_state_value(E, st)]
    /\ UNCHANGED <<availability, storefail, last_state, last_update, available, state, polling, pc, dev, eidx, kidx,
                   status, dps_values, ret, dps_changes, didx, ent, polled, log, wcall,
                   disp, msg, raised, mainpc, inflight>>

(* Raw DPS vectors: each of DPS 1, 2, 3 absent or with a value. *)
SampleVectors ==
    {a @@ b @@ c : a \in {<<>>} \cup {(1 :> x) : x \in {B(TRUE), B(FALSE)}},
                   b \in {<<>>} \cup {(2 :> x) : x \in {I(500)}},
                   c \in {<<>>} \cup {(3 :> x) : x \in {I(21), I(0), S("21")}}}

(* update_state is called twice with the same vector on an entity that     *)
(* holds the state of an earlier vector.                                   *)
calc_update_state ==
    /\ calc = NoCalc
    /\ \E e \in EntityRefs, dv0 \in SampleVectors, dv \in SampleVectors :
          LET once == update_state(e, Resolve(e, dv0), dv)
              twice == update_state(e, once.state, once.dps_values)
          IN  calc' = [fn |-> "update_state", ent |-> e, data |-> dv,
                       before |-> Resolve(e, dv0), once |-> once.state, out |-> twice.state]
    /\ UNCHANGED <<availability, storefail, last_state, last_update, available, state, polling, pc, dev, eidx, kidx,
                   status, dps_values, ret, dps_changes, didx, ent, polled, log, wcall,
                   disp, msg, raised, mainpc, inflight>>

(* The translation functions evaluated on sample entities and payloads. *)
NextCalc ==
    \/ calc_entity_id
    \/ calc_discovery
    \/ calc_update_state
    \/ calc_state_value
    \/ calc_sanitize
    \/ calc_color_modes
    \/ calc_command
    \/ calc_control

SpecCalc == Init /\ [][NextCalc]_vars

-----------------------------------------------------------------------------
(* Properties                                                              *)

(* The statements of TuyaDevice.get_status (device.py 166-203).            *)
GsPcs == {"gs_status", "gs_last_state", "gs_last_update", "gs_available", "gs_for",
          "us_reset", "us_for", "gs_save", "gs_log", "gs_nodps", "gs_except"}

(* Thread t is executing get_status of device d. *)
InGetStatus(t, d) == pc[t] \in GsPcs /\ dev[t] = d

(* Thread t has made the first write of a refresh of d and has not made    *)
(* the last one: last_state is assigned, some entity is still to be reset  *)
(* or refilled.                                                            *)
Rewriting(t, d) ==
    /\ dev[t] = d
    /\ \/ pc[t] \in {"gs_last_update", "gs_available", "us_reset", "us_for"}
       \/ pc[t] = "gs_for" /\ eidx[t] <= Len(Entities(d))
       \/ pc[t] = "gs_save" /\ eidx[t] < Len(Entities(d))

(* The entities of device d. *)
EntitiesOf(d) == {e \in EntityRefs : e[1] = d}

(* The semantic keys of entity e whose DPS number is present in vector dv. *)
KeysPresent(e, dv) ==
    {Ent(e).dps_map[k][1] : k \in {j \in 1..Len(Ent(e).dps_map) :
                                      Ent(e).dps_map[j][2] \in DOMAIN dv}}

(* C1: the refresh of a device made by the poll tick and the refresh of    *)
(* the same device made by a command handler are never in progress at the  *)
(* same time.                                                              *)
C1_RefreshesExclusive ==
    \A d \in Devices : \A t \in {"mqtt", "http"} :
        ~(InGetStatus("poll", d) /\ InGetStatus(t, d))

(* C2: every step of a failing refresh (the read that fails, then the      *)
(* failure exit) leaves last_state and every entity's state as they were;  *)
(* the exit sets available to false and returns no vector.                 *)
C2_FailedRefreshKeepsState ==
    [][\A t \in Threads :
          /\ (pc[t] = "gs_status" /\ pc'[t] \in {"gs_nodps", "gs_except"})
                => (last_state' = last_state /\ state' = state /\ available' = available)
          /\ (pc[t] \in {"gs_nodps", "gs_except"} /\ pc'[t] # pc[t])
                => /\ last_state' = last_state
                   /\ state' = state
                   /\ available'[dev[t]] = FALSE
                   /\ \A d \in Devices \ {dev[t]} : available'[d] = available[d]
                   /\ ret'[t] = None
                   /\ pc'[t] = AfterGetStatus(t)]_vars

(* A refresh of d1 has failed after an earlier one had succeeded: the poll *)
(* thread is back in its loop with no vector, the old data is still there. *)
C2_FailedAfterData ==
    /\ pc["poll"] = "pub_avail"
    /\ dev["poll"] = "d1"
    /\ ret["poll"] = None
    /\ ~available["d1"]
    /\ last_state["d1"] # EmptyDict
    /\ state[<<"d1", 1>>] # EmptyDict

(* C3: when a successful refresh of a device has finished its work (it is  *)
(* about to return the vector), the device is available and every entity   *)
(* of the device holds the resolve of the device's last_state.             *)
C3_SuccessRecomputes ==
    \A t \in Threads :
        pc[t] = "gs_log" =>
            /\ available[dev[t]]
            /\ \A e \in EntitiesOf(dev[t]) : state[e] = Resolve(e, last_state[dev[t]])

(* C4: when update_state returns, the entity's state has exactly the keys  *)
(* of dps_map whose DPS number is in the vector that was passed.           *)
C4_ResolveReplaces ==
    \A t \in Threads :
        pc[t] = "gs_save" =>
            DOMAIN state[CurEntity(t)] = KeysPresent(CurEntity(t), dps_values[t])

(* C5: whenever no refresh of a device is in progress, each entity of the  *)
(* device holds exactly the keys whose DPS number is in the device's       *)
(* last_state, each with the scaled value of that DPS.                     *)
C5_StateMatchesLastState ==
    \A d \in Devices :
        (\A t \in Threads : ~InGetStatus(t, d)) =>
            \A e \in EntitiesOf(d) : state[e] = Resolve(e, last_state[d])

(* The statements that read available, entity state or last_state of a     *)
(* device on behalf of a publish or of an HTTP read.                       *)
ReadPcs == {"pub_avail", "pub_check", "pub_for", "pub_raw", "td_dev", "td_ent", "td_raw",
            "h_resp"}

Reading(t, d) == pc[t] \in ReadPcs /\ dev[t] = d

(* C6: no publish and no HTTP read of a device takes place while a refresh *)
(* of that device is part-way through rewriting its fields.                *)
C6_NoReadDuringRewrite ==
    \A d \in Devices : \A r \in Threads : \A w \in Threads \ {r} :
        ~(Reading(r, d) /\ Rewriting(w, d))

(* The steps of a command that changes at least one DPS, in source order   *)
(* (mqtt_handler.py 238-249).                                              *)
CommandSteps == <<"write", "sleep", "get_status", "publish">>

IsPrefix(s, t) == Len(s) <= Len(t) /\ s = SubSeq(t, 1, Len(s))

(* C7: what the MQTT handler has done for the message in hand is always a  *)
(* prefix of write, delay, refresh, publish; when the handler of a command *)
(* with DPS changes returns, it has done exactly these four, once each.    *)
C7_CommandOrder ==
    /\ IsPrefix(log["mqtt"], CommandSteps)
    /\ (pc["mqtt"] = "m_done" /\ disp["mqtt"] = "command")
          => log["mqtt"] = CommandSteps
    /\ (pc["mqtt"] = "m_done" /\ disp["mqtt"] # "command")
          => log["mqtt"] = <<>>

C7_CommandDone ==
    /\ pc["mqtt"] = "m_done"
    /\ disp["mqtt"] = "command"
    /\ log["mqtt"] = CommandSteps

(* The message names a device that is not in the registry, or an entity    *)
(* that the device does not have.                                          *)
UnknownTarget(m) ==
    /\ Len(m.topic) >= 2
    /\ \/ m.topic[1] \notin Devices
       \/ /\ Len(m.topic) >= 3
          /\ \A e \in EntitiesOf(m.topic[1]) : Ent(e).name # m.topic[2]

(* C8: the handler of a message with an unknown device or entity takes two *)
(* steps, the routing and the return; neither changes a device or an       *)
(* entity, and no write, refresh or publish is made in between.            *)
C8_UnknownTargetDropped ==
    [][/\ (msg' # msg /\ UnknownTarget(msg'))
            => /\ UNCHANGED <<last_state, last_update, available, state>>
               /\ pc'["mqtt"] = "m_done"
               /\ log'["mqtt"] = <<>>
               /\ wcall'["mqtt"] = NoCall
               /\ dps_changes'["mqtt"] = EmptyDict
       /\ (UnknownTarget(msg) /\ pc'["mqtt"] # pc["mqtt"])
            => /\ UNCHANGED <<last_state, last_update, available, state>>
               /\ pc["mqtt"] = "m_done"
               /\ pc'["mqtt"] = "m_idle"
               /\ msg' = NoMsg]_vars

C8_UnknownEntityInHand ==
    /\ UnknownTarget(msg)
    /\ msg.topic[1] \in Devices
    /\ pc["mqtt"] = "m_done"
    /\ disp["mqtt"] = "unknown_entity"

(* The number of entries of sequence s equal to x. *)
Count(s, x) == Cardinality({i \in 1..Len(s) : s[i] = x})

(* C9: the write of a command is one call: set_dps when the translation    *)
(* gave one DPS, set_multiple_dps carrying all of them when it gave more.  *)
C9_SingleOrBatched ==
    \A t \in {"mqtt", "http"} :
        wcall[t] # NoCall =>
            /\ Count(log[t], "write") = 1
            /\ wcall[t].arg = dps_changes[t]
            /\ Cardinality(DOMAIN dps_changes[t]) = 1 => wcall[t].op = "set_dps"
            /\ Cardinality(DOMAIN dps_changes[t]) >= 2 => wcall[t].op = "set_multiple_dps"
            /\ Cardinality(DOMAIN dps_changes[t]) >= 1

C9_BothKinds ==
    /\ pc["mqtt"] = "m_sleep"
    /\ Cardinality(DOMAIN dps_changes["mqtt"]) = 2
    /\ wcall["mqtt"].op = "set_multiple_dps"
    /\ pc["http"] = "h_sleep"
    /\ Cardinality(DOMAIN dps_changes["http"]) = 1
    /\ wcall["http"].op = "set_dps"

(* The devices the for loop of the tick has reached so far. *)
Reached == {DeviceOrder[i] : i \in {j \in 1..Len(DeviceOrder) : j <= didx}}

(* C10: while polling is on the poll thread never ends; when a tick        *)
(* reaches its sleep, the refresh of every device of the registry has been *)
(* attempted in it, whether or not a publish raised on the way.            *)
C10_TickCoversAll ==
    /\ polling => pc["poll"] # "poll_exit"
    /\ pc["poll"] = "poll_sleep" => polled = Devices
    /\ pc["poll"] \in {"poll_next", "pub_avail", "pub_check", "pub_for", "pub_raw"}
          => polled = Reached

C10_RaisedAndCovered ==
    /\ pc["poll"] = "poll_sleep"
    /\ raised
    /\ polled = Devices

(* The calls of one iteration of the poll loop, in source order            *)
(* (device.py 316-317).                                                    *)
TickSteps == <<"get_status", "publish">>

(* C11: in a tick the poll thread works on the devices in registry order,  *)
(* one at a time: while it refreshes a device it has not yet published it, *)
(* it publishes only after the refresh has returned, and it moves to the   *)
(* next device only when refresh and publish of the current one are done.  *)
C11_TickSequential ==
    /\ IsPrefix(log["poll"], TickSteps)
    /\ pc["poll"] \in GsPcs
          => /\ dev["poll"] = DeviceOrder[didx]
             /\ log["poll"] = IF pc["poll"] = "gs_status" THEN <<>> ELSE <<"get_status">>
    /\ pc["poll"] \in {"pub_avail", "pub_check", "pub_for", "pub_raw"}
          => /\ dev["poll"] = DeviceOrder[didx]
             /\ log["poll"] = IF pc["poll"] = "pub_avail" THEN <<"get_status">> ELSE TickSteps
    /\ pc["poll"] = "poll_next" => log["poll"] = TickSteps
    /\ pc["poll"] \in {"poll_while", "poll_sleep"} => log["poll"] = <<>>

C11_SecondDeviceAfterFirst ==
    /\ pc["poll"] = "poll_next"
    /\ dev["poll"] = "d2"
    /\ didx = 2
    /\ polled = Devices
    /\ log["poll"] = TickSteps

(* C12: once the shutdown has gone past the join (the MQTT client is being *)
(* disconnected, the database closed, the process exited), the refresh     *)
(* that the poll thread was running at the stop request has returned.      *)
C12_InflightRefreshFinishes ==
    mainpc \in {"close", "exit", "exited"} => ~inflight

(* The other half of C12: with polling off, no tick starts. *)
NoTickAfterStop ==
    [][~polling => ~(pc["poll"] = "poll_while" /\ pc'["poll"] = "poll_for")]_vars

(* The semantic keys an entity maps. *)
KeysOf(E) == {E.dps_map[i][1] : i \in 1..Len(E.dps_map)}

(* The entries of a list. *)
Range(s) == {s[i] : i \in 1..Len(s)}

(* C13: the color-mode list of a light is one mode, chosen by precedence   *)
(* color, color_temp, brightness, else onoff; "brightness" is never listed *)
(* together with "hs" or "color_temp".                                     *)
C13_ColorModePrecedence ==
    calc.fn = "color_modes" =>
        LET m == calc.out.supported_color_modes
            k == KeysOf(calc.ent)
        IN  /\ Len(m) = 1
            /\ "color" \in k => m = <<"hs">>
            /\ ("color" \notin k /\ "color_temp" \in k) => m = <<"color_temp">>
            /\ ("color" \notin k /\ "color_temp" \notin k /\ "brightness" \in k)
                  => m = <<"brightness">>
            /\ k \cap {"color", "color_temp", "brightness"} = {} => m = <<"onoff">>
            /\ "brightness" \in Range(m) => Range(m) \cap {"hs", "color_temp"} = {}

C13_ColorAndColorTemp ==
    /\ calc.fn = "color_modes"
    /\ {"color", "color_temp", "brightness"} \subseteq KeysOf(calc.ent)
    /\ calc.out.supported_color_modes = <<"hs">>

Abs(x) == IF x >= 0 THEN x ELSE -x

(* v is an integer nearest to the quotient n / d (d > 0). *)
IsNearest(v, n, d) == 2 * Abs(n - v * d) <= d

(* The DPS number an entity configuration maps a key to. *)
DpsOf(E, key) == GetDpsFrom(E.dps_map, key, 1)

(* The temperature a payload asks for. *)
Requested(data) ==
    IF "target_temp" \in DOMAIN data THEN data["target_temp"] ELSE data["temperature"]

(* C14: a command with a numeric target_temp (or temperature) T for a      *)
(* climate entity that maps target_temp writes to that DPS an integer      *)
(* nearest to T / temp_step.                                               *)
C14_TemperatureNearest ==
    ( /\ calc.fn = "command"
      /\ calc.ent.platform = "climate"
      /\ "target_temp" \in KeysOf(calc.ent)
      /\ DOMAIN calc.data \cap {"target_temp", "temperature"} # {}
      /\ IsReal(Requested(calc.data)) )
    => /\ DpsOf(calc.ent, "target_temp") \in DOMAIN calc.out.changes
       /\ IsNearest(calc.out.changes[DpsOf(calc.ent, "target_temp")].v,
                    Tenths(Requested(calc.data)), calc.ent.temp_step)

(* The same for the temperatures above zero, for which the write is made. *)
TemperatureNearestAboveZero ==
    ( /\ calc.fn = "command"
      /\ calc.ent.platform = "climate"
      /\ DOMAIN calc.data = {"target_temp"}
      /\ IsReal(Requested(calc.data))
      /\ Tenths(Requested(calc.data)) > 0 )
    => /\ DpsOf(calc.ent, "target_temp") \in DOMAIN calc.out.changes
       /\ IsNearest(calc.out.changes[DpsOf(calc.ent, "target_temp")].v,
                    Tenths(Requested(calc.data)), calc.ent.temp_step)

(* C15: a command with brightness b in 0..255 for a light that maps        *)
(* brightness writes an integer nearest to min + (b / 255) * (max - min):  *)
(* min for b = 0, max for b = 255.                                         *)
C15_BrightnessNearest ==
    ( /\ calc.fn = "command"
      /\ calc.ent.platform = "light"
      /\ "brightness" \in KeysOf(calc.ent)
      /\ "brightness" \in DOMAIN calc.data )
    => LET b == calc.data["brightness"].v
           min_val == calc.ent.brightness_range[1]
           max_val == calc.ent.brightness_range[2]
           dps == DpsOf(calc.ent, "brightness")
       IN  /\ dps \in DOMAIN calc.out.changes
           /\ IsNearest(calc.out.changes[dps].v,
                        min_val * MqttBrightnessFull + b * (max_val - min_val),
                        MqttBrightnessFull)
           /\ b = 0 => calc.out.changes[dps].v = min_val
           /\ b = MqttBrightnessFull => calc.out.changes[dps].v = max_val

(* The speed fields a fan command may carry a percentage in. *)
SpeedFields == {"brightness", "speed", "percentage"}

(* C16: a speed command with percentage p for a fan that maps speed writes *)
(* min for p = 0 and max for p = 100.                                      *)
C16_FanPercent ==
    ( /\ calc.fn = "command"
      /\ calc.ent.platform = "fan"
      /\ "speed" \in KeysOf(calc.ent)
      /\ \E f \in SpeedFields : DOMAIN calc.data = {f} /\ calc.data[f].v \in {0, WebBrightnessFull} )
    => LET f == CHOOSE g \in SpeedFields : DOMAIN calc.data = {g}
           p == calc.data[f].v
           dps == DpsOf(calc.ent, "speed")
       IN  /\ dps \in DOMAIN calc.out.changes
           /\ p = 0 => calc.out.changes[dps].v = calc.ent.speed_range[1]
           /\ p = WebBrightnessFull => calc.out.changes[dps].v = calc.ent.speed_range[2]

(* An alarm panel with a state DPS has received a text command. *)
AlarmCommand ==
    /\ calc.fn = "command"
    /\ calc.ent.platform = "alarm_control_panel"
    /\ "state" \in KeysOf(calc.ent)
    /\ DOMAIN calc.data = {"command"}
    /\ calc.data["command"].t = "str"

(* The keys of `states` whose value is c. *)
KeysFor(states, c) == {states[i][1] : i \in {j \in 1..Len(states) : states[j][2] = c}}

(* C17: the command c is looked up in the inverse of `states`: if some key *)
(* maps to c, that key is written to the state DPS; if none does, nothing  *)
(* is written and the command is not applied (no refresh, no publish).     *)
C17_AlarmInverse ==
    AlarmCommand =>
        LET c == calc.data["command"].v
            dps == DpsOf(calc.ent, "state")
        IN  IF KeysFor(calc.ent.states, c) # {}
            THEN /\ DOMAIN calc.out.changes = {dps}
                 /\ calc.out.changes[dps].t = "str"
                 /\ calc.out.changes[dps].v \in KeysFor(calc.ent.states, c)
            ELSE /\ calc.out.changes = EmptyDict
                 /\ calc.disp = "noop"

(* What the handler does instead: it looks up the command in lower case,   *)
(* so a configured value with an upper-case letter is never found.         *)
AlarmInverseLowered ==
    AlarmCommand =>
        LET c == Lower(calc.data["command"].v)
            dps == DpsOf(calc.ent, "state")
            st == calc.ent.states
        IN  IF KeysFor(st, c) # {}
            THEN /\ DOMAIN calc.out.changes = {dps}
                 /\ calc.out.changes[dps].t = "str"
                 /\ calc.out.changes[dps].v \in KeysFor(st, c)
                 /\ \A i \in 1..Len(st) :
                       (st[i][2] = c /\ \A j \in (i + 1)..Len(st) : st[j][2] # c)
                          => calc.out.changes[dps].v = st[i][1]
                 /\ calc.disp = "command"
            ELSE /\ calc.out.changes = EmptyDict
                 /\ calc.disp = "noop"

(* C18: for every entity and payload the HTTP translation gives the DPS    *)
(* writes that the MQTT translation gives.                                 *)
C18_SameWrites ==
    calc.fn = "control" =>
        calc.out.changes = TranslateCommandOf(calc.ent, calc.data).changes

(* The same on the brightness of a light alone. *)
SameBrightnessWrites ==
    ( /\ calc.fn = "control"
      /\ calc.ent.platform = "light"
      /\ DOMAIN calc.data = {"brightness"} )
    => calc.out.changes = TranslateCommandOf(calc.ent, calc.data).changes

(* C19: the set-entity endpoint answers 400 whenever set_dps /             *)
(* set_multiple_dps returned False, and then never calls get_status; it    *)
(* goes on to the refresh and the 200 answer only after a write that       *)
(* returned True.                                                          *)
C19_FailureNoRefresh ==
    /\ pc["http"] \in {"h_fail", "h_sleep"} =>
           /\ wcall["http"] # NoCall
           /\ wcall["http"].ok <=> pc["http"] = "h_sleep"
           /\ log["http"] = <<"write">>
    /\ ( pc["http"] = "h_done" /\ disp["http"] = "400" ) =>
           "get_status" \notin Range(log["http"])
    /\ ( pc["http"] = "h_done" /\ disp["http"] = "200" /\ ent["http"] # 0 ) =>
           log["http"] = <<"write", "sleep", "get_status">>

(* The write raised in the link and the endpoint is about to answer 400. *)
C19_FailedWrite ==
    /\ pc["http"] = "h_fail"
    /\ wcall["http"].res = "raise"
    /\ ~ wcall["http"].ok

(* C20: set_dps and set_multiple_dps return True exactly when the link     *)
(* reported ok.                                                            *)
C20_ResultFollowsLink ==
    \A t \in Threads :
        wcall[t] # NoCall => ( wcall[t].ok <=> wcall[t].res = "ok" )
(* C21: a set_dps / set_multiple_dps call, whatever the link did, leaves   *)
(* last_state, last_update, available and every entity's state as they    *)
(* were, and the only link call it makes is the write.                     *)
C21_WriteLeavesState ==
    [][ \A t \in {"mqtt", "http"} :
          ( pc[t] \in {"m_apply", "h_apply"} /\ pc'[t] # pc[t] ) =>
              /\ UNCHANGED <<last_state, last_update, available, state>>
              /\ log'[t] = Append(log[t], "write") ]_vars

(* A write that raised in the link has returned to the MQTT handler. *)
C21_RaisedWriteReturned ==
    /\ pc["mqtt"] = "m_sleep"
    /\ wcall["mqtt"].res = "raise"
    /\ available[dev["mqtt"]]
(* C22: a failure inside save_entity_state or log_event leaves the call    *)
(* that made it on its successful path: the refresh goes on through the    *)
(* entities and returns the vector, never through a failure exit, and the  *)
(* write returns True and has its settle delay and refresh.                *)
C22_StoreFailureSwallowed ==
    \A t \in Threads :
        storefail[t] =>
            /\ pc[t] \in {"gs_for", "us_reset", "us_for", "gs_save", "gs_log",
                          "pub_avail", "h_resp", "m_sleep", "h_sleep"}
            /\ pc[t] \in {"pub_avail", "h_resp"} => ret[t] \in {Some(v) : v \in RawVectors(dev[t])}
            /\ pc[t] \in {"m_sleep", "h_sleep"} => wcall[t].ok

(* A refresh has returned its vector after a store call failed inside it,  *)
(* and a write has returned after its log_event failed.                    *)
C22_ReturnedAfterStoreFailure ==
    /\ storefail["poll"]
    /\ pc["poll"] = "pub_avail"
    /\ storefail["http"]
    /\ pc["http"] = "h_sleep"
(* C23: two distinct entities of the registry have different entity_id     *)
(* values.                                                                 *)
C23_EntityIdUnique ==
    calc.fn = "entity_id" => calc.out[1] # calc.out[2]
(* The characters of a text other than spaces and underscores that the     *)
(* topic alphabet allows, in order.                                        *)
IsLetter(c) == c \in AllowedChars \ {"_"}

Letters(text) == SelectSeq(text, IsLetter)

(* Spaces count as underscores: position i of the text holds one. *)
Underscore(text, i) == text[i] \in {"_", " "}

(* C24: the sanitized text holds only characters of [A-Za-z0-9_-], no two  *)
(* adjacent underscores and no underscore at either end; the allowed       *)
(* characters of the input are all kept, in order, nothing is put in the   *)
(* place of a removed character, and an underscore stands between two      *)
(* kept characters exactly where the input had a space or an underscore    *)
(* between them.                                                           *)
C24_SanitizedAlphabet ==
    calc.fn = "sanitize" =>
        LET in == calc.data
            out == calc.out
        IN  /\ \A i \in 1..Len(out) : out[i] \in AllowedChars
            /\ \A i \in 1..(Len(out) - 1) : ~ (out[i] = "_" /\ out[i + 1] = "_")
            /\ Len(out) > 0 => out[1] # "_" /\ out[Len(out)] # "_"
            /\ Letters(out) = Letters(in)
            /\ Len(out) = Len(Letters(in))
                  + Cardinality({i \in 1..Len(in) :
                        /\ Underscore(in, i)
                        /\ \E j \in 1..(i - 1) : IsLetter(in[j])
                        /\ \E j \in (i + 1)..Len(in) : IsLetter(in[j])
                        /\ \A j \in 1..(i - 1) :
                               Underscore(in, j) => \E k \in (j + 1)..(i - 1) : IsLetter(in[k])})

(* A name with spaces around a removed non-ASCII letter has been sanitized. *)
C24_SpacesAroundRemoved ==
    /\ calc.fn = "sanitize"
    /\ calc.data = <<"a", " ", "U+010D", " ", "7">>
    /\ calc.out = <<"a", "_", "7">>
(* state[key] when the key is set, otherwise the given value *)
SetOr(st, key, otherwise) == IF key \in DOMAIN st THEN st[key] ELSE otherwise

(* C25: the main state value follows the default table: switch OR lock     *)
(* (false when neither is set) for light, switch, fan and lock; value or 0 *)
(* for sensor and number; current_temp or 20 for climate; state or         *)
(* "disarmed" for alarm_control_panel; status or "docked" for vacuum;      *)
(* option, else the first configured option, else "" for select.           *)
C25_DefaultTable ==
    calc.fn = "state_value" =>
        LET p == calc.ent.platform
            st == calc.data
            out == calc.out
        IN  /\ p \in {"light", "switch", "fan", "lock"} =>
                   out = IF "switch" \in DOMAIN st /\ st["switch"] = B(TRUE) THEN B(TRUE)
                         ELSE SetOr(st, "lock", B(FALSE))
            /\ p \in {"sensor", "number"} => out = SetOr(st, "value", I(0))
            /\ p = "climate" => out = SetOr(st, "current_temp", I(20))
            /\ p = "alarm_control_panel" => out = SetOr(st, "state", S("disarmed"))
            /\ p = "vacuum" => out = SetOr(st, "status", S("docked"))
            /\ p = "select" =>
                   out = SetOr(st, "option",
                               IF calc.ent.options # <<>> THEN S(Head(calc.ent.options)) ELSE S(""))

(* A climate entity without current_temp has been read as 20. *)
C25_ClimateDefault ==
    /\ calc.fn = "state_value"
    /\ calc.ent.platform = "climate"
    /\ "current_temp" \notin DOMAIN calc.data
    /\ calc.out = I(20)
(* C26: update_state applied twice with the same raw vector leaves the     *)
(* state that one application leaves, also with a scale other than 1.      *)
C26_ResolveIdempotent ==
    calc.fn = "update_state" => calc.out = calc.once

(* A scaled sensor that held another state was updated twice. *)
C26_ScaledTwice ==
    /\ calc.fn = "update_state"
    /\ Ent(calc.ent).scale # 1
    /\ 3 \in DOMAIN calc.data
    /\ calc.data[3] = I(21)
    /\ calc.before # calc.once
    /\ calc.out = ("value" :> I(42))
(* Some thread is handling a failed answer of the link of device d. *)
LinkFailing(d) == \E t \in Threads : dev[t] = d /\ pc[t] \in {"gs_nodps", "gs_except"}

(* C27: a refresh asks the link once and does not ask again inside the     *)
(* call; the poll loop refreshes every device again and again; once the    *)
(* link of a device answers every request, the device stays available      *)
(* from some tick on.                                                      *)
C27_NextTickRetries ==
    /\ [](\A t \in Threads : Count(log[t], "get_status") <= 1)
    /\ \A d \in Devices :
          /\ []<>(pc["poll"] = "gs_status" /\ dev["poll"] = d)
          /\ <>[](~ LinkFailing(d)) => <>[]available[d]

(* The poll thread got an answer from a device that is marked unavailable  *)
(* and is about to mark it available.                                      *)
C27_AnswersAgain ==
    /\ pc["poll"] = "gs_available"
    /\ dev["poll"] = "d1"
    /\ ~ available["d1"]
    /\ log["poll"] = <<"get_status">>
(* C28: a call of publish_device_state that published "offline" publishes  *)
(* no entity state and no raw DPS state; one that goes on to the entity    *)
(* states published "online".                                              *)
C28_OfflinePublishesNoState ==
    \A t \in Publishers :
        pc[t] \in {"pub_for", "pub_raw"} => availability[t] = "online"

(* The availability payload alone: it is "online" exactly when the         *)
(* device's flag is true at the publish.                                   *)
AvailabilityMatchesFlag ==
    [][ \A t \in Publishers :
          ( pc[t] = "pub_avail" /\ pc'[t] = "pub_check" ) =>
              ( availability'[t] = "online" <=> available[dev[t]] ) ]_vars
(* The message addresses an entity of the registry on a command topic and  *)
(* its payload translates, without an exception, to no DPS write.          *)
ZeroWrites(m) ==
    /\ Len(m.topic) >= 3
    /\ m.topic[3] \in {"set", "command"}
    /\ ~ UnknownTarget(m)
    /\ m.payload.kind \in {"json", "raw"}
    /\ \E e \in EntitiesOf(m.topic[1]) :
          /\ Ent(e).name = m.topic[2]
          /\ TranslateCommand(e, ParsePayload(m.payload).data) = Translated(EmptyDict)

(* C29: the handler of a command that translates to no DPS write takes two *)
(* steps, the translation and the return: it is not counted as an error,   *)
(* it makes no write, no settle delay, no refresh and no publish, and no   *)
(* device or entity changes.                                               *)
C29_ZeroWritesNoEffect ==
    [][/\ (msg' # msg /\ msg' # NoMsg /\ ZeroWrites(msg'))
            => /\ UNCHANGED <<last_state, last_update, available, state>>
               /\ pc'["mqtt"] = "m_done"
               /\ disp'["mqtt"] = "noop"
               /\ log'["mqtt"] = <<>>
               /\ wcall'["mqtt"] = NoCall
       /\ (msg # NoMsg /\ ZeroWrites(msg) /\ pc'["mqtt"] # pc["mqtt"])
            => /\ UNCHANGED <<last_state, last_update, available, state>>
               /\ pc["mqtt"] = "m_done"
               /\ pc'["mqtt"] = "m_idle"
               /\ log["mqtt"] = <<>>
               /\ msg' = NoMsg]_vars

(* A set command for a sensor, and one with a field a light does not use,  *)
(* have been translated to nothing.                                        *)
C29_SensorCommandInHand ==
    /\ pc["mqtt"] = "m_done"
    /\ disp["mqtt"] = "noop"
    /\ msg.topic \in {<<"d2", "temp", "set">>, <<"d1", "lamp", "set">>}
    /\ dps_changes["mqtt"] = EmptyDict
(* A payload for a vacuum that maps both power and mode. *)
VacuumPayload ==
    /\ calc.fn = "command"
    /\ calc.ent.platform = "vacuum"
    /\ {"power", "mode"} \subseteq KeysOf(calc.ent)
    /\ DOMAIN calc.data \subseteq {"command", "mode"}
    /\ "command" \in DOMAIN calc.data => calc.data["command"].t = "str"

(* C30: for a vacuum, "start" writes true to the power DPS, "stop" and     *)
(* "pause" write false to it, "return_to_base" writes "return" to the mode *)
(* DPS, and a mode field is written to the mode DPS as it is, also in the  *)
(* place of "return"; nothing else is written.                             *)
C30_VacuumCommands ==
    VacuumPayload =>
        LET data == calc.data
            c == IF "command" \in DOMAIN data THEN data["command"].v ELSE ""
            power == DpsOf(calc.ent, "power")
            mode == DpsOf(calc.ent, "mode")
            out == calc.out.changes
        IN  /\ ~ calc.out.raise
            /\ c = "start" => power \in DOMAIN out /\ out[power] = B(TRUE)
            /\ c \in {"stop", "pause"} => power \in DOMAIN out /\ out[power] = B(FALSE)
            /\ (c = "return_to_base" /\ "mode" \notin DOMAIN data) =>
                   out = (mode :> S("return"))
            /\ "mode" \in DOMAIN data => mode \in DOMAIN out /\ out[mode] = data["mode"]
            /\ DOMAIN out \subseteq {power, mode}
            /\ power \in DOMAIN out => c \in {"start", "stop", "pause", "START"}
            /\ mode \in DOMAIN out => "mode" \in DOMAIN data \/ c = "return_to_base"

(* "return_to_base" together with a mode field has been translated. *)
C30_ModeOverridesReturn ==
    /\ VacuumPayload
    /\ calc.data = ("command" :> S("return_to_base") @@ "mode" :> S("spot"))
    /\ calc.out.changes = (4 :> S("spot"))
(* The DPS numbers of an entity's dps_map. *)
MappedDps(E) == {E.dps_map[i][2] : i \in 1..Len(E.dps_map)}

(* C31: every DPS number that a command translates to is a DPS number of   *)
(* the entity's dps_map; a key the entity has not mapped gives no write,   *)
(* never one to the DPS number None.                                       *)
C31_WritesOnlyMappedDps ==
    calc.fn = "command" => DOMAIN calc.out.changes \subseteq MappedDps(calc.ent)

(* C32: a message sent to the command topic that the discovery payload of  *)
(* an entity advertises is resolved by the router to that same entity.     *)
C32_AdvertisedCommandRouted ==
    (calc.fn = "discovery" /\ HasCommandTopic(calc.out.platform))
        => calc.out.resolved = [found |-> TRUE, name |-> calc.ent[2]]

(* C33: the state topic that the discovery payload of an entity advertises *)
(* is the topic on which publish_device_state publishes the entity's state.*)
C33_AdvertisedStatePublished ==
    calc.fn = "discovery" => calc.out.first.state_topic = calc.out.published

(* C35: two distinct configured entities are announced on distinct         *)
(* discovery topics and with distinct unique_id.                           *)
C35_DiscoveryDistinct ==
    calc.fn = "discovery"
        => /\ calc.out.first.discovery_topic # calc.out.second.discovery_topic
           /\ calc.out.first.unique_id # calc.out.second.unique_id

(* The payload_on and payload_off of a switch or a fan (homeassistant.py   *)
(* 93-109) as the handler parses them.                                     *)
PlainPayload(text) == ParsePayload(Raw(text)).data

(* C34: for a switch or a fan that maps its switch, the plain payloads     *)
(* "ON" and "OFF" write true and false to the switch DPS.                  *)
C34_PlainOnOffWritesSwitch ==
    \A text \in {"ON", "OFF"} :
        (/\ calc.fn = "command"
         /\ calc.ent.platform \in {"switch", "fan"}
         /\ "switch" \in KeysOf(calc.ent)
         /\ calc.data = PlainPayload(text))
            => calc.out.changes = (DpsOf(calc.ent, "switch") :> B(text = "ON"))

(* get_status returns the refreshed vector to its caller (device.py 198). *)
RefreshReturns(t) == pc[t] = "gs_log" /\ pc'[t] \notin {"gs_log", "gs_except"}

(* C36: on every path a successful refresh of a device is followed by the  *)
(* publish of that device's state: the caller to which get_status returns  *)
(* goes on with publish_device_state.                                      *)
C36_RefreshThenPublish ==
    [][\A t \in Threads : RefreshReturns(t) => pc'[t] = "pub_avail"]_vars

(* C37: in the MQTT command path the settle delay, the refresh and the     *)
(* publish happen only after a write that reported ok: the handler reaches *)
(* the delay only with a write that returned True.                         *)
C37_GoesOnOnlyAfterOk ==
    pc["mqtt"] = "m_sleep" => wcall["mqtt"].ok

(* C38: a device whose available flag is true has its last_update set (it  *)
(* has been refreshed with success at least once).                         *)
C38_AvailableWasRefreshed ==
    \A d \in Devices : available[d] => last_update[d] # "None"

(* MQTTHandler.disconnect has returned: bridge "offline" is published and  *)
(* the client is disconnected (mqtt_handler.py 50-56).                     *)
Disconnected == mainpc \in {"close", "exit", "exited"}

(* The poll thread calls get_status (device.py 316), or it makes the first *)
(* client.publish of publish_device_state (mqtt_handler.py 260).           *)
PollIssues ==
    \/ pc["poll"] # "gs_status" /\ pc'["poll"] = "gs_status"
    \/ pc["poll"] = "pub_avail" /\ pc'["poll"] = "pub_check"

(* C39: once Tuya2MQTT.stop has published bridge "offline" and             *)
(* disconnected the MQTT client, the poll thread issues no further refresh *)
(* and no further publish.                                                 *)
C39_NoPollAfterDisconnect ==
    [][Disconnected => ~PollIssues]_vars
====
